---- MODULE Spec2Model ----
(***************************************************************************)
(* Model of the transport machinery of conjure-sdk:                        *)
(*   - SocketServerMixin (transport/socket_server.py): per-connection      *)
(*     threads hand framed commands to the execution thread through        *)
(*     _operation_queue, _result_map and _result_events; server_start,     *)
(*     server_stop and the accept thread, statement by statement;          *)
(*   - SocketClientMixin (transport/socket_client.py): one connection per  *)
(*     command, and the health check;                                      *)
(*   - BaseServerClient (adapter/base_server_client.py): the persistent    *)
(*     connection with its state machine, reconnect loop and inbound       *)
(*     message routing;                                                    *)
(*   - BaseAdapter (adapter/base_adapter.py): the command registry and     *)
(*     its dispatch, with AdapterResult (adapter/result.py);               *)
(*   - AdapterRunner (adapter/runner.py): run() of the client followed by  *)
(*     disconnect().                                                       *)
(* Each component has its own specification.                               *)
(***************************************************************************)
EXTENDS Integers, Sequences, FiniteSets, TLC

\* ------------------------------------------------------------------ bounds
\* frames the controllers send in all
MaxFrames == 2
\* largest max_ops handed to server_process_queue
MaxOps == 2
\* config.max_reconnect_attempts of the modelled client
MaxReconnectAttempts == 2
\* successful connects the environment grants during one run()
MaxConnects == 2
\* inbound messages delivered on one connection handle
MaxMsgs == 2
\* register_handler calls made on one adapter
MaxRegisters == 2
\* execute calls made on one adapter
MaxExecutes == 2
\* server_start calls made on one server
MaxStarts == 2
\* server_stop calls made on one server
MaxStops == 2
\* socket_execute and socket_health_check calls made on one client
MaxCalls == 2
\* chunks the peer sends in answer to one command
MaxChunks == 2

\* ================================================================ server
VARIABLES
  server_running,   \* _server_running
  server_socket,    \* _server_socket: 0 (None) or the number of the socket
  operation_queue,  \* _operation_queue: Seq of [type, rid]
  result_map,       \* _result_map: request id -> result
  result_events,    \* _result_events: request id -> owner of the Event object
  eventSet,         \* flag of the Event object created by each connection's current call
  cpc,              \* position of each connection thread
  stream,           \* bytes the peer has sent and the thread has not yet read
  buffer,           \* local `buffer` of _server_handle_client
  cur,              \* command of the running _server_queue_and_wait call
  response,         \* value _server_queue_and_wait returned, about to be sent
  nframes,          \* frames taken from the buffer so far (per connection)
  sent,             \* responses written to each connection, in order
  returned,         \* history: what each _server_queue_and_wait call returned
  ppc,              \* position of the execution thread in server_process_queue
  pcur,             \* operation the execution thread has dequeued
  pres,             \* result the executor produced for pcur
  pleft,            \* remaining iterations of `for _ in range(max_ops)`
  pqReturn,         \* history: how the latest server_process_queue call ended
  execLog,          \* history: command types in the order the executor ran them
  waited,           \* history: how the current call's event.wait ended
  input             \* history: everything the peer sends on each connection

\* ================================================================ client
VARIABLES
  state,              \* _state
  ws,                 \* _ws: 0 (None) or the number of the connection handle
  reconnect_attempts, \* _reconnect_attempts
  running,            \* _running
  rpc,                \* position of the task executing run()
  dpc,                \* position of a task executing disconnect()
  iterWs,             \* the handle `async for message in self._ws` iterates
  wsOpen,             \* handles that are open
  handles,            \* handles opened so far
  nmsgs,              \* inbound messages handled so far
  lastConnect,        \* history: outcome of the latest connect() call
  consecFails,        \* history: failed connect() calls since the last success
  lastStep,           \* history: the method that made the latest assignment to _state
  exitReason,         \* history: why run() returned
  adapter,            \* self.adapter: 0 (None) or 1 (the adapter object)
  sentOn,             \* history: per handle, what has been written to it
  lastSent,           \* history: the latest message written
  handled,            \* history: the latest inbound message handled, and how
  pending,            \* the execute_command whose adapter.execute is awaited
  connectedOn,        \* history: handles on which a connect() succeeded
  lastDisc,           \* history: how the latest disconnect() to return left the client
  apc,                \* position of AdapterRunner.run() ("none": no runner)
  released            \* history: disconnect() calls AdapterRunner.run() has made

\* ================================================================ adapter
VARIABLES
  handlers,           \* BaseAdapter._handlers: command type -> handler
  lastExec,           \* history: the latest execute() call and what came of it
  lastReg,            \* history: the latest registering call, what came of it, prefixes so far
  latest,             \* history: command type -> handler most recently registered
  nreg,               \* registering calls so far
  nexec               \* execute calls so far

\* ========================================================== socket client
VARIABLES
  socks,              \* every socket a call created: "open" | "connected" | "closed"
  xpc,                \* where the call in progress stands
  call,               \* the call in progress, or the latest one, and its history
  ncalls              \* socket_execute and socket_health_check calls so far

\* ====================================================== server: lifecycle
VARIABLES
  lpc,                \* where each accept thread stands in _server_accept_loop
  lsock,              \* the socket each accept thread created
  spc,                \* where server_stop() stands
  stopDone,           \* history: server_stop() returned, no server_start() since
  nstarts,            \* history: server_start() calls that spawned a thread
  nstops              \* history: server_stop() calls so far

serverVars == <<server_running, server_socket, operation_queue, result_map,
                result_events, eventSet, cpc, stream, buffer, cur, response,
                nframes, sent, returned, ppc, pcur, pres, pleft, pqReturn, execLog,
                waited, input>>
clientVars == <<state, ws, reconnect_attempts, running, rpc, dpc, iterWs, wsOpen,
                handles, nmsgs, lastConnect, consecFails, lastStep, exitReason>>
wireVars == <<adapter, sentOn, lastSent, handled, pending, connectedOn, lastDisc>>
adapterVars == <<handlers, lastExec, lastReg, latest, nreg, nexec>>
runnerVars == <<apc, released>>
socketVars == <<socks, xpc, call, ncalls>>
listenVars == <<lpc, lsock, spc, stopDone, nstarts, nstops>>
transportVars == <<socketVars, listenVars>>
clientSide == <<clientVars, wireVars, runnerVars, adapterVars, socketVars>>
vars == <<serverVars, clientVars, wireVars, runnerVars, adapterVars, transportVars>>

\* ------------------------------------------------------- server: values
Conns == {1, 2}
\* request ids a controller supplies
SuppliedIds == {1}
\* command types on which the executor raises
FailingTypes == {<<2, 1>>}

NoType == <<0, 0>>
NoRid == [src |-> "none", conn |-> 0, n |-> 0]
Supplied(k) == [src |-> "req", conn |-> 0, n |-> k]
\* str(uuid.uuid4()): a value no other call and no controller produces
Uuid4(c, n) == [src |-> "uuid", conn |-> c, n |-> n]

NL == [kind |-> "nl", type |-> NoType, rid |-> NoRid]
BadJson == [kind |-> "bad", type |-> NoType, rid |-> NoRid]
Cmd(t, r) == [kind |-> "cmd", type |-> t, rid |-> r]
\* a line that is valid JSON but no object (a number, a list, a string, null):
\* json.loads returns a value that has no .get
NonObject == [kind |-> "val", type |-> NoType, rid |-> NoRid]
\* the bytes of a command whose text holds a two-byte UTF-8 character, cut
\* between the two bytes of that character
CmdLead(t, r) == [kind |-> "cmda", type |-> t, rid |-> r]
CmdRest == [kind |-> "cmdb", type |-> NoType, rid |-> NoRid]

\* results: executor results carry the command type they were computed from
ExecOk(t) == [status |-> "ok", error |-> "", of |-> t]
ExecError(t) == [status |-> "error", error |-> "executor raised", of |-> t]
InvalidJson == [status |-> "error", error |-> "Invalid JSON", of |-> NoType]
NoResult == [status |-> "error", error |-> "No result", of |-> NoType]
TimedOut == [status |-> "error", error |-> "Operation timed out", of |-> NoType]
\* executor(cmd_type, params), an exception caught into an error result
Executor(t) == IF t \in FailingTypes THEN ExecError(t) ELSE ExecOk(t)
NoResponse == [status |-> "none", error |-> "", of |-> NoType]

EmptyMap == [x \in {} |-> NoRid]
MapPut(m, k, v) == [x \in (DOMAIN m) \cup {k} |-> IF x = k THEN v ELSE m[x]]
MapDel(m, k) == [x \in (DOMAIN m) \ {k} |-> m[x]]

\* ------------------------------------------------------ server: framing
SP == [kind |-> "sp", type |-> NoType, rid |-> NoRid]

\* the lines a controller may frame as frame i of connection c
FrameChoices(c, i) ==
  {<<Cmd(<<c, i>>, Supplied(k))>> : k \in SuppliedIds} \cup {<<Cmd(<<c, i>>, NoRid)>>}

RECURSIVE Frame(_, _)
\* json.dumps(cmd) + "\n" for each chosen line, concatenated
Frame(lines, n) ==
  IF n = 0 THEN <<>> ELSE Frame(lines, n - 1) \o lines[n] \o <<NL>>

\* the byte streams of n frames connection c may receive
StreamsOf(c, n) ==
  {Frame(f, n) : f \in {g \in [1..n -> UNION {FrameChoices(c, i) : i \in 1..n}] :
                          \A i \in 1..n : g[i] \in FrameChoices(c, i)}}

\* the lines a controller may frame as frame i when it also sends lines that
\* are no command, blank lines and non-ASCII text
FramingChoices(c, i) ==
  {<<Cmd(<<c, i>>, NoRid)>>, <<BadJson>>, <<NonObject>>, <<SP>>,
   <<CmdLead(<<c, i>>, NoRid), CmdRest>>}
\* the byte streams of n such frames
FramingStreamsOf(c, n) ==
  {Frame(f, n) : f \in {g \in [1..n -> UNION {FramingChoices(c, i) : i \in 1..n}] :
                          \A i \in 1..n : g[i] \in FramingChoices(c, i)}}

\* MaxFrames frames in all, connection 1 receiving at least as many as connection 2
Splits == {sp \in [Conns -> 0..MaxFrames] : sp[1] + sp[2] = MaxFrames /\ sp[1] >= sp[2]}

HasNL(buf) == \E i \in 1..Len(buf) : buf[i].kind = "nl"
FirstNL(buf) == CHOOSE i \in 1..Len(buf) :
                  buf[i].kind = "nl" /\ \A j \in 1..(i - 1) : buf[j].kind # "nl"

RECURSIVE LStrip(_)
LStrip(line) ==
  IF line # <<>> /\ Head(line).kind = "sp" THEN LStrip(Tail(line)) ELSE line
RECURSIVE RStrip(_)
RStrip(line) ==
  IF line # <<>> /\ line[Len(line)].kind = "sp"
  THEN RStrip(SubSeq(line, 1, Len(line) - 1)) ELSE line
\* str.strip()
Strip(line) == RStrip(LStrip(line))

\* bytes.decode("utf-8") of one recv's data: raises UnicodeDecodeError when the
\* data ends inside a character or begins inside one
Utf8Decodes(data) ==
  /\ data[Len(data)].kind # "cmda"
  /\ data[1].kind # "cmdb"

\* json.loads succeeds and yields a command object
Decodes(line) ==
  \/ Len(line) = 1 /\ line[1].kind = "cmd"
  \/ Len(line) = 2 /\ line[1].kind = "cmda" /\ line[2].kind = "cmdb"
\* json.loads succeeds and yields a value that is no object: cmd.get raises
\* AttributeError
DecodesNonObject(line) == Len(line) = 1 /\ line[1].kind = "val"

\* cmd.get("request_id", str(uuid.uuid4()))
RequestId(c, n, tok) == IF tok.rid = NoRid THEN Uuid4(c, n) ELSE tok.rid

NoOp == [type |-> NoType, rid |-> NoRid]

\* ----------------------------------------------- server: lifecycle values
\* the accept threads, in the order server_start() spawns them; socket k is
\* the one accept thread k creates
Threads == 1..MaxStarts
\* the server's variables that start, stop and the accept loop leave alone
queueVars == <<operation_queue, result_map, result_events, eventSet, cpc, stream,
               buffer, cur, response, nframes, sent, returned, ppc, pcur, pres,
               pleft, pqReturn, execLog, waited, input>>
\* server_init(): no accept thread, no socket
ListenerIdle ==
  /\ lpc = [k \in Threads |-> "none"]
  /\ lsock = [k \in Threads |-> "none"]
  /\ spc = "idle"
  /\ stopDone = FALSE
  /\ nstarts = 0
  /\ nstops = 0
\* after server_start(), once its accept thread listens and waits in accept()
ListenerStarted ==
  /\ lpc = [k \in Threads |-> IF k = 1 THEN "accept" ELSE "none"]
  /\ lsock = [k \in Threads |-> IF k = 1 THEN "listening" ELSE "none"]
  /\ spc = "idle"
  /\ stopDone = FALSE
  /\ nstarts = 1
  /\ nstops = 0

\* ---------------------------------------------------------- server: Init
\* a started server before any connection: empty queue and maps
ServerFresh ==
  /\ server_running = TRUE
  /\ server_socket = 1
  /\ ListenerStarted
  /\ operation_queue = <<>>
  /\ result_map = EmptyMap
  /\ result_events = EmptyMap
  /\ eventSet = [c \in Conns |-> FALSE]
  /\ cpc = [c \in Conns |-> "none"]
  /\ buffer = [c \in Conns |-> <<>>]
  /\ cur = [c \in Conns |-> NoOp]
  /\ response = [c \in Conns |-> NoResponse]
  /\ nframes = [c \in Conns |-> 0]
  /\ sent = [c \in Conns |-> <<>>]
  /\ returned = [c \in Conns |-> <<>>]
  /\ ppc = "idle"
  /\ pcur = NoOp
  /\ pres = NoResponse
  /\ pleft = 0
  /\ pqReturn = "none"
  /\ execLog = <<>>
  /\ waited = [c \in Conns |-> "none"]

ServerInit ==
  /\ ServerFresh
  /\ \E sp \in Splits : \E s1 \in StreamsOf(1, sp[1]) : \E s2 \in StreamsOf(2, sp[2]) :
       stream = [c \in Conns |-> IF c = 1 THEN s1 ELSE s2]
  /\ input = stream

\* a started server whose first controller sends MaxFrames lines of any kind
\* and whose second sends nothing
FramingInit ==
  /\ ServerFresh
  /\ \E s1 \in FramingStreamsOf(1, MaxFrames) :
       stream = [c \in Conns |-> IF c = 1 THEN s1 ELSE <<>>]
  /\ input = stream

\* ------------------------------------------- server: accept and stop
\* _server_accept_loop: accept() returns a client, a handler thread is spawned
server_accept(c) ==
  /\ server_running
  /\ server_socket # 0
  /\ lsock[server_socket] = "listening"
  /\ cpc[c] = "none"
  /\ cpc' = [cpc EXCEPT ![c] = "recv"]
  /\ UNCHANGED <<server_running, server_socket, operation_queue, result_map,
                 result_events, eventSet, stream, buffer, cur, response, nframes, sent,
                 returned, ppc, pcur, pres, pleft, pqReturn, execLog, waited>>
  /\ UNCHANGED <<input, clientSide, listenVars>>

server_stop ==
  /\ server_running
  /\ spc = "idle"
  /\ server_running' = FALSE
  /\ lsock' = IF server_socket # 0 THEN [lsock EXCEPT ![server_socket] = "closed"]
              ELSE lsock
  /\ server_socket' = 0
  /\ stopDone' = TRUE
  /\ nstops' = nstops + 1
  /\ UNCHANGED <<lpc, spc, nstarts>>
  /\ UNCHANGED <<operation_queue, result_map, result_events, eventSet, cpc, stream,
                 buffer, cur, response, nframes, sent, returned, ppc, pcur, pres,
                 pleft, pqReturn, execLog, waited>>
  /\ UNCHANGED <<input, clientSide>>

\* ----------------------------------------- server: lifecycle, by statement
\* server_start, server_stop and _server_accept_loop run on different threads;
\* every read or write of _server_running and _server_socket is a step.

\* the accept thread the next server_start() spawns
NextThread == 1 + Cardinality({k \in Threads : lpc[k] # "none"})

\* mutant of server_start: an accept thread is spawned whatever the flag says
server_start_AlwaysSpawns ==
  /\ spc = "idle"
  /\ nstarts < MaxStarts
  /\ nstarts' = nstarts + 1
  /\ server_running' = TRUE
  /\ lpc' = [lpc EXCEPT ![NextThread] = "spawned"]
  /\ stopDone' = FALSE
  /\ UNCHANGED <<server_socket, lsock, spc, nstops>>
  /\ UNCHANGED <<queueVars, clientSide>>

\* server_start(): returns at once if the flag is set, else sets it and
\* starts the accept thread
server_start ==
  /\ spc = "idle"
  /\ nstarts < MaxStarts
  /\ nstarts' = nstarts + 1
  /\ IF server_running
     THEN UNCHANGED <<server_running, lpc, stopDone>>
     ELSE /\ server_running' = TRUE
          /\ lpc' = [lpc EXCEPT ![NextThread] = "spawned"]
          /\ stopDone' = FALSE
  /\ UNCHANGED <<server_socket, lsock, spc, nstops>>
  /\ UNCHANGED <<queueVars, clientSide>>

\* server_stop(), line 96: the flag is cleared
stop_Flag ==
  /\ spc = "idle"
  /\ nstops < MaxStops
  /\ nstops' = nstops + 1
  /\ server_running' = FALSE
  /\ spc' = "test"
  /\ UNCHANGED <<server_socket, lpc, lsock, stopDone, nstarts>>
  /\ UNCHANGED <<queueVars, clientSide>>

\* line 97, `if self._server_socket:`; without a socket stop() returns
stop_Test ==
  /\ spc = "test"
  /\ IF server_socket # 0
     THEN spc' = "close" /\ UNCHANGED stopDone
     ELSE spc' = "idle" /\ stopDone' = TRUE
  /\ UNCHANGED <<server_running, server_socket, lpc, lsock, nstarts, nstops>>
  /\ UNCHANGED <<queueVars, clientSide>>

\* lines 98-101: close() of whatever _server_socket is now
stop_Close ==
  /\ spc = "close"
  /\ lsock' = IF server_socket # 0 THEN [lsock EXCEPT ![server_socket] = "closed"]
              ELSE lsock
  /\ spc' = "clear"
  /\ UNCHANGED <<server_running, server_socket, lpc, stopDone, nstarts, nstops>>
  /\ UNCHANGED <<queueVars, clientSide>>

\* line 102, `self._server_socket = None`, and the return
stop_Clear ==
  /\ spc = "clear"
  /\ server_socket' = 0
  /\ spc' = "idle"
  /\ stopDone' = TRUE
  /\ UNCHANGED <<server_running, lpc, lsock, nstarts, nstops>>
  /\ UNCHANGED <<queueVars, clientSide>>

\* line 107: the thread creates its socket and stores it in _server_socket
loop_Create(k) ==
  /\ lpc[k] = "spawned"
  /\ lsock' = [lsock EXCEPT ![k] = "open"]
  /\ server_socket' = k
  /\ lpc' = [lpc EXCEPT ![k] = "created"]
  /\ UNCHANGED <<server_running, spc, stopDone, nstarts, nstops>>
  /\ UNCHANGED <<queueVars, clientSide>>

\* line 108: setsockopt on _server_socket, outside the try; on None
\* (AttributeError) or on a closed socket (OSError) the thread dies
loop_SetOpt(k) ==
  /\ lpc[k] = "created"
  /\ lpc' = [lpc EXCEPT ![k] =
       IF server_socket = 0 \/ lsock[server_socket] = "closed"
       THEN "exited" ELSE "bind"]
  /\ UNCHANGED <<server_running, server_socket, lsock, spc, stopDone, nstarts, nstops>>
  /\ UNCHANGED <<queueVars, clientSide>>

\* the port is taken by a socket of this server
PortTaken == \E j \in Threads : lsock[j] = "listening"

\* lines 109-117: bind, listen and settimeout on _server_socket. On None the
\* AttributeError is not an OSError and the thread dies; an OSError (closed
\* socket, port taken here or, free == FALSE, elsewhere) clears the flag and
\* the thread returns.
loop_Bind(k, free) ==
  /\ lpc[k] = "bind"
  /\ IF server_socket = 0
     THEN /\ lpc' = [lpc EXCEPT ![k] = "exited"]
          /\ UNCHANGED <<server_running, lsock>>
     ELSE IF lsock[server_socket] = "closed" \/ PortTaken \/ ~free
     THEN /\ lpc' = [lpc EXCEPT ![k] = "exited"]
          /\ server_running' = FALSE
          /\ UNCHANGED lsock
     ELSE /\ lpc' = [lpc EXCEPT ![k] = "check"]
          /\ lsock' = [lsock EXCEPT ![server_socket] = "listening"]
          /\ UNCHANGED server_running
  /\ UNCHANGED <<server_socket, spc, stopDone, nstarts, nstops>>
  /\ UNCHANGED <<queueVars, clientSide>>

\* line 119, `while self._server_running:`; when it is false the function ends
loop_Check(k) ==
  /\ lpc[k] = "check"
  /\ lpc' = [lpc EXCEPT ![k] = IF server_running THEN "accept" ELSE "exited"]
  /\ UNCHANGED <<server_running, server_socket, lsock, spc, stopDone, nstarts, nstops>>
  /\ UNCHANGED <<queueVars, clientSide>>

\* lines 120-130: accept() on _server_socket times out or raises (None, closed
\* socket); both are caught and the loop goes on
loop_AcceptNone(k) ==
  /\ lpc[k] = "accept"
  /\ lpc' = [lpc EXCEPT ![k] = "check"]
  /\ UNCHANGED <<server_running, server_socket, lsock, spc, stopDone, nstarts, nstops>>
  /\ UNCHANGED <<queueVars, clientSide>>

ListenerNext ==
  \/ server_start
  \/ stop_Flag
  \/ stop_Test
  \/ stop_Close
  \/ stop_Clear
  \/ \E k \in Threads : loop_Create(k)
  \/ \E k \in Threads : loop_SetOpt(k)
  \/ \E k \in Threads, free \in BOOLEAN : loop_Bind(k, free)
  \/ \E k \in Threads : loop_Check(k)
  \/ \E k \in Threads : loop_AcceptNone(k)

\* ------------------------------------- server: _server_handle_client
\* Steps that touch only the thread's own socket and locals are joined to the
\* shared-state access before them; every access to the queue or to one of the
\* two maps is a step of its own.

\* `while self._server_running:` is false: leave the loop, client.close()
HC_LoopExit(c) ==
  /\ cpc[c] = "recv"
  /\ ~server_running
  /\ cpc' = [cpc EXCEPT ![c] = "closed"]
  /\ UNCHANGED <<server_running, server_socket, operation_queue, result_map,
                 result_events, eventSet, stream, buffer, cur, response, nframes, sent,
                 returned, ppc, pcur, pres, pleft, pqReturn, execLog, waited>>
  /\ UNCHANGED <<input, clientSide, listenVars>>

\* client.recv(8192) returns a non-empty prefix of what the peer sent;
\* .decode("utf-8") of these bytes alone either gives the text appended to the
\* buffer or raises UnicodeDecodeError (`except Exception: break`, client.close())
HC_Recv(c) ==
  /\ cpc[c] = "recv"
  /\ server_running
  /\ \E k \in 1..Len(stream[c]) :
       /\ stream' = [stream EXCEPT ![c] = SubSeq(@, k + 1, Len(@))]
       /\ IF Utf8Decodes(SubSeq(stream[c], 1, k))
          THEN /\ buffer' = [buffer EXCEPT ![c] = @ \o SubSeq(stream[c], 1, k)]
               /\ cpc' = [cpc EXCEPT ![c] = "frames"]
          ELSE /\ cpc' = [cpc EXCEPT ![c] = "closed"]
               /\ UNCHANGED buffer
  /\ UNCHANGED <<server_running, server_socket, operation_queue, result_map,
                 result_events, eventSet, cur, response, nframes, sent, returned, ppc,
                 pcur, pres, pleft, pqReturn, execLog, waited>>
  /\ UNCHANGED <<input, clientSide, listenVars>>

\* client.recv returns no data (peer closed) or raises: break, client.close()
HC_RecvClosed(c) ==
  /\ cpc[c] = "recv"
  /\ server_running
  /\ cpc' = [cpc EXCEPT ![c] = "closed"]
  /\ UNCHANGED <<server_running, server_socket, operation_queue, result_map,
                 result_events, eventSet, stream, buffer, cur, response, nframes, sent,
                 returned, ppc, pcur, pres, pleft, pqReturn, execLog, waited>>
  /\ UNCHANGED <<input, clientSide, listenVars>>

\* _server_queue_and_wait returns res for frame n: the call is recorded, and
\* client.send writes the response or raises (`except Exception: break`)
Respond(c, n, op, res) ==
  /\ returned' = [returned EXCEPT ![c] = Append(@, [frame |-> n, op |-> op, res |-> res])]
  /\ \E ok \in BOOLEAN :
       IF ok THEN /\ sent' = [sent EXCEPT ![c] = Append(@, [frame |-> n, op |-> op, res |-> res])]
                  /\ cpc' = [cpc EXCEPT ![c] = "frames"]
             ELSE /\ cpc' = [cpc EXCEPT ![c] = "closed"]
                  /\ UNCHANGED sent

\* `while "\n" in buffer:` one frame is split off; _server_queue_and_wait
\* decodes it and registers its Event (lines 145-148, 169-176).  A line that
\* json.loads rejects is answered with the Invalid JSON error; a line that
\* decodes to a value without .get raises AttributeError at line 174, which
\* leaves _server_queue_and_wait and ends the connection (lines 150-153)
HC_Frames(c) ==
  /\ cpc[c] = "frames"
  /\ IF ~HasNL(buffer[c])
     THEN /\ cpc' = [cpc EXCEPT ![c] = "recv"]
          /\ UNCHANGED <<buffer, nframes, cur, result_events, eventSet, returned, sent, waited>>
     ELSE LET i == FirstNL(buffer[c])
              line == Strip(SubSeq(buffer[c], 1, i - 1))
              n == nframes[c] + 1
          IN /\ buffer' = [buffer EXCEPT ![c] = SubSeq(@, i + 1, Len(@))]
             /\ IF line = <<>>
                THEN UNCHANGED <<cpc, nframes, cur, result_events, eventSet, returned, sent, waited>>
                ELSE /\ nframes' = [nframes EXCEPT ![c] = n]
                     /\ waited' = [waited EXCEPT ![c] = "none"]
                     /\ IF Decodes(line)
                        THEN LET rid == RequestId(c, n, line[1])
                             IN /\ cur' = [cur EXCEPT ![c] = [type |-> line[1].type, rid |-> rid]]
                                /\ result_events' = MapPut(result_events, rid, c)
                                /\ eventSet' = [eventSet EXCEPT ![c] = FALSE]
                                /\ cpc' = [cpc EXCEPT ![c] = "put"]
                                /\ UNCHANGED <<returned, sent>>
                        ELSE IF DecodesNonObject(line)
                        THEN /\ cpc' = [cpc EXCEPT ![c] = "closed"]
                             /\ UNCHANGED <<cur, result_events, eventSet, returned, sent>>
                        ELSE /\ Respond(c, n, NoOp, InvalidJson)
                             /\ UNCHANGED <<cur, result_events, eventSet>>
  /\ UNCHANGED <<server_running, server_socket, operation_queue, result_map, stream,
                 response, ppc, pcur, pres, pleft, pqReturn, execLog>>
  /\ UNCHANGED <<input, clientSide, listenVars>>

\* self._operation_queue.put((type, params, request_id))
HC_Put(c) ==
  /\ cpc[c] = "put"
  /\ operation_queue' = Append(operation_queue, cur[c])
  /\ cpc' = [cpc EXCEPT ![c] = "wait"]
  /\ UNCHANGED <<server_running, server_socket, result_map, result_events, eventSet,
                 stream, buffer, cur, response, nframes, sent, returned, ppc, pcur,
                 pres, pleft, pqReturn, execLog, waited>>
  /\ UNCHANGED <<input, clientSide, listenVars>>

\* event.wait(timeout) returns True: the Event was set;
\* result = self._result_map.pop(request_id, {"status": "error", "error": "No result"})
HC_Wake(c) ==
  /\ cpc[c] = "wait"
  /\ eventSet[c]
  /\ waited' = [waited EXCEPT ![c] = "set"]
  /\ response' = [response EXCEPT ![c] =
        IF cur[c].rid \in DOMAIN result_map THEN result_map[cur[c].rid] ELSE NoResult]
  /\ result_map' = MapDel(result_map, cur[c].rid)
  /\ cpc' = [cpc EXCEPT ![c] = "del"]
  /\ UNCHANGED <<server_running, server_socket, operation_queue, result_events,
                 eventSet, stream, buffer, cur, nframes, sent, returned, ppc, pcur,
                 pres, pleft, pqReturn, execLog>>
  /\ UNCHANGED <<input, clientSide, listenVars>>

\* event.wait(timeout) returns False: the timeout elapsed with the Event unset
HC_Timeout(c) ==
  /\ cpc[c] = "wait"
  /\ ~eventSet[c]
  /\ waited' = [waited EXCEPT ![c] = "timeout"]
  /\ cpc' = [cpc EXCEPT ![c] = "timedout"]
  /\ UNCHANGED <<server_running, server_socket, operation_queue, result_map,
                 result_events, eventSet, stream, buffer, cur, response, nframes, sent,
                 returned, ppc, pcur, pres, pleft, pqReturn, execLog>>
  /\ UNCHANGED <<input, clientSide, listenVars>>

\* del self._result_events[request_id]; return result.  A missing key raises
\* KeyError, which _server_handle_client catches: break, client.close()
HC_Del(c) ==
  /\ cpc[c] = "del"
  /\ IF cur[c].rid \in DOMAIN result_events
     THEN /\ result_events' = MapDel(result_events, cur[c].rid)
          /\ Respond(c, nframes[c], cur[c], response[c])
     ELSE /\ cpc' = [cpc EXCEPT ![c] = "closed"]
          /\ UNCHANGED <<result_events, returned, sent>>
  /\ UNCHANGED <<server_running, server_socket, operation_queue, result_map, eventSet,
                 stream, buffer, cur, response, nframes, ppc, pcur, pres, pleft,
                 pqReturn, execLog, waited>>
  /\ UNCHANGED <<input, clientSide, listenVars>>

\* mutant of HC_TimedOut: the timed-out caller leaves its Event registered
HC_TimedOut_KeepsEvent(c) ==
  /\ cpc[c] = "timedout"
  /\ result_events' = result_events
  /\ Respond(c, nframes[c], cur[c], TimedOut)
  /\ UNCHANGED <<server_running, server_socket, operation_queue, result_map, eventSet,
                 stream, buffer, cur, response, nframes, ppc, pcur, pres, pleft,
                 pqReturn, execLog, waited>>
  /\ UNCHANGED <<input, clientSide, listenVars>>

\* self._result_events.pop(request_id, None); return the timeout error
HC_TimedOut(c) ==
  /\ cpc[c] = "timedout"
  /\ result_events' = MapDel(result_events, cur[c].rid)
  /\ Respond(c, nframes[c], cur[c], TimedOut)
  /\ UNCHANGED <<server_running, server_socket, operation_queue, result_map, eventSet,
                 stream, buffer, cur, response, nframes, ppc, pcur, pres, pleft,
                 pqReturn, execLog, waited>>
  /\ UNCHANGED <<input, clientSide, listenVars>>

server_handle_client(c) ==
  \/ HC_LoopExit(c) \/ HC_Recv(c) \/ HC_RecvClosed(c) \/ HC_Frames(c) \/ HC_Put(c)
  \/ HC_Wake(c) \/ HC_Timeout(c) \/ HC_Del(c) \/ HC_TimedOut(c)

\* ------------------------------------- server: server_process_queue
\* entry: `if not self._server_running: return False`
PQ_Call(m) ==
  /\ ppc = "idle"
  /\ IF server_running
     THEN /\ ppc' = "get"
          /\ pleft' = m
          /\ pqReturn' = "none"
     ELSE /\ pqReturn' = "False"
          /\ UNCHANGED <<ppc, pleft>>
  /\ UNCHANGED <<server_running, server_socket, operation_queue, result_map,
                 result_events, eventSet, cpc, stream, buffer, cur, response, nframes,
                 sent, returned, pcur, pres, execLog, waited>>
  /\ UNCHANGED <<input, clientSide, listenVars>>

\* mutant of PQ_Get: the newest operation is taken first
PQ_Get_Lifo ==
  /\ ppc = "get"
  /\ IF pleft = 0 \/ operation_queue = <<>>
     THEN /\ ppc' = "idle"
          /\ pqReturn' = "True"
          /\ pleft' = 0
          /\ UNCHANGED <<operation_queue, pcur, pres, execLog, result_map>>
     ELSE LET op == operation_queue[Len(operation_queue)]
          IN /\ pcur' = op
             /\ operation_queue' = SubSeq(operation_queue, 1, Len(operation_queue) - 1)
             /\ pleft' = pleft - 1
             /\ execLog' = Append(execLog, op.type)
             /\ pres' = Executor(op.type)
             /\ result_map' = MapPut(result_map, op.rid, Executor(op.type))
             /\ ppc' = IF op.rid \in DOMAIN result_events THEN "set" ELSE "get"
             /\ UNCHANGED pqReturn
  /\ UNCHANGED <<server_running, server_socket, result_events, eventSet, cpc, stream,
                 buffer, cur, response, nframes, sent, returned, waited>>
  /\ UNCHANGED <<input, clientSide, listenVars>>

\* one `for` iteration up to the membership test (lines 208-217): get_nowait(),
\* the executor call, `self._result_map[request_id] = result`, and
\* `if request_id in self._result_events:`.  The loop ends (return True) after
\* max_ops iterations or on queue.Empty.
PQ_Get ==
  /\ ppc = "get"
  /\ IF pleft = 0 \/ operation_queue = <<>>
     THEN /\ ppc' = "idle"
          /\ pqReturn' = "True"
          /\ pleft' = 0
          /\ UNCHANGED <<operation_queue, pcur, pres, execLog, result_map>>
     ELSE LET op == Head(operation_queue)
          IN /\ pcur' = op
             /\ operation_queue' = Tail(operation_queue)
             /\ pleft' = pleft - 1
             /\ execLog' = Append(execLog, op.type)
             /\ pres' = Executor(op.type)
             /\ result_map' = MapPut(result_map, op.rid, Executor(op.type))
             /\ ppc' = IF op.rid \in DOMAIN result_events THEN "set" ELSE "get"
             /\ UNCHANGED pqReturn
  /\ UNCHANGED <<server_running, server_socket, result_events, eventSet, cpc, stream,
                 buffer, cur, response, nframes, sent, returned, waited>>
  /\ UNCHANGED <<input, clientSide, listenVars>>

\* mutant of PQ_Set: one signal shared by all waiters
PQ_Set_SetsEveryEvent ==
  /\ ppc = "set"
  /\ IF pcur.rid \in DOMAIN result_events
     THEN /\ eventSet' = [c \in Conns |-> TRUE]
          /\ ppc' = "get"
          /\ UNCHANGED <<pqReturn, pleft>>
     ELSE /\ pqReturn' = "raised"
          /\ ppc' = "idle"
          /\ pleft' = 0
          /\ UNCHANGED eventSet
  /\ UNCHANGED <<server_running, server_socket, operation_queue, result_map,
                 result_events, cpc, stream, buffer, cur, response, nframes, sent,
                 returned, pcur, pres, execLog, waited>>
  /\ UNCHANGED <<input, clientSide, listenVars>>

\* `self._result_events[request_id].set()`: the subscript raises KeyError when
\* the entry was removed after the membership test; only queue.Empty is caught,
\* so the exception leaves server_process_queue
PQ_Set ==
  /\ ppc = "set"
  /\ IF pcur.rid \in DOMAIN result_events
     THEN /\ eventSet' = [eventSet EXCEPT ![result_events[pcur.rid]] = TRUE]
          /\ ppc' = "get"
          /\ UNCHANGED <<pqReturn, pleft>>
     ELSE /\ pqReturn' = "raised"
          /\ ppc' = "idle"
          /\ pleft' = 0
          /\ UNCHANGED eventSet
  /\ UNCHANGED <<server_running, server_socket, operation_queue, result_map,
                 result_events, cpc, stream, buffer, cur, response, nframes, sent,
                 returned, pcur, pres, execLog, waited>>
  /\ UNCHANGED <<input, clientSide, listenVars>>

server_process_queue ==
  \/ \E m \in 1..MaxOps : PQ_Call(m)
  \/ PQ_Get \/ PQ_Set

ServerNext ==
  \/ \E c \in Conns : server_accept(c)
  \/ \E c \in Conns : server_handle_client(c)
  \/ server_process_queue
  \/ server_stop

\* ======================================================= server: claims
\* the _server_queue_and_wait calls that have returned
Returned == {<<c, i>> : c \in Conns, i \in 1..MaxFrames} \cap
            {x \in Conns \X (1..MaxFrames) : x[2] <= Len(returned[x[1]])}
Call(x) == returned[x[1]][x[2]]

\* connections inside _server_queue_and_wait, between registering and returning
InCall(c) == cpc[c] \in {"put", "wait", "del", "timedout"}
\* the call of connection c has returned and no new one has begun
AfterCall(c) == cpc[c] \in {"frames", "recv", "closed"} /\ returned[c] # <<>>

\* how often command type t was handed to the executor
Executions(t) == Cardinality({i \in 1..Len(execLog) : execLog[i] = t})

\* the positions of the commands the peers send that carry a request id
SuppliedAt == {x \in Conns \X (1..(2 * MaxFrames)) :
                 /\ x[2] <= Len(input[x[1]])
                 /\ input[x[1]][x[2]].kind = "cmd"
                 /\ input[x[1]][x[2]].rid # NoRid}

\* no two commands carry the same request id (generated ids are distinct)
DistinctIds ==
  \A x, y \in SuppliedAt : x # y => input[x[1]][x[2]].rid # input[y[1]][y[2]].rid

\* C1: with distinct request ids, a caller of queueAndWait is handed the result
\* of executing its own command (or the timeout error when its wait timed out),
\* never another command's result and never "No result"; a delivered result
\* stands for exactly one execution of that command.
C1_OwnResult ==
  DistinctIds =>
    \A x \in Returned :
      /\ Call(x).res \in {Executor(Call(x).op.type), TimedOut}
      /\ Call(x).res # TimedOut => Executions(Call(x).op.type) = 1
      /\ Executions(Call(x).op.type) <= 1

\* C1 witness: two connections, distinct ids, each was handed its own result,
\* two executions in all
C1_Witness ==
  /\ DistinctIds
  /\ Len(execLog) = 2
  /\ \A c \in Conns : /\ Len(returned[c]) = 1
                      /\ returned[c][1].res = Executor(<<c, 1>>)
                      /\ returned[c][1].op.type = <<c, 1>>

\* C2 (as stated): server_process_queue raises no exception, however the
\* waiter's timeout and the completion of its operation interleave.
C2_NeverRaises == pqReturn # "raised"

\* an operation with request id r is registered, waiting, queued or executing
InFlight(r) ==
  \/ \E c \in Conns : InCall(c) /\ cur[c].rid = r
  \/ \E i \in 1..Len(operation_queue) : operation_queue[i].rid = r
  \/ ppc = "set" /\ pcur.rid = r

\* C3 (as stated): once an operation is resolved for its caller and no operation
\* with its request id is queued, executing or waiting, neither map holds an
\* entry for that id.
C3_NoLeakedEntries ==
  \A x \in Returned :
    ~InFlight(Call(x).op.rid) =>
      /\ Call(x).op.rid \notin DOMAIN result_map
      /\ Call(x).op.rid \notin DOMAIN result_events

\* C4: a call whose wait timed out returns the timeout error for its own
\* command, and on return no Event of that caller is left in the primitive map.
C4_TimeoutResult ==
  \A c \in Conns :
    (AfterCall(c) /\ waited[c] = "timeout") =>
      /\ returned[c][Len(returned[c])].res = TimedOut
      /\ returned[c][Len(returned[c])].op = cur[c]
      /\ \A r \in DOMAIN result_events : result_events[r] # c

\* C4 witness: a caller got the timeout error while its operation is still queued
C4_Witness ==
  \E c \in Conns :
    /\ AfterCall(c) /\ waited[c] = "timeout"
    /\ returned[c][Len(returned[c])].res = TimedOut
    /\ \E i \in 1..Len(operation_queue) : operation_queue[i] = cur[c]

None == <<"None">>
\* ""
EmptyStr == <<>>
\* A dict is a set of <<key, value>> pairs, one pair per key.
\* {}
NoData == {}
\* result.get(k, default)
Get(m, k, default) ==
  IF \E p \in m : p[1] = k THEN (CHOOSE p \in m : p[1] = k)[2] ELSE default
\* command types the callers use
CommandTypes == {"create_box", "export"}
\* the data a handler for command type t produces
DataOf(t) == {<<"object_id", <<t>>>>}

\* What a handler does with the params: return an AdapterResult (built by
\* ok(), by fail(), or by the dataclass constructor with success and error
\* both set), return a dict, return nothing, raise an Exception (with or
\* without a message), or raise a BaseException that is not an Exception
\* (SystemExit, KeyboardInterrupt, asyncio.CancelledError).
Outcomes == {"result_ok", "result_fail", "result_odd", "dict", "dict_error",
             "dict_error_bare", "nothing", "raise_msg", "raise_empty", "raise_base"}
\* the outcomes the coroutine handlers cover: one of each way execute() ends
AsyncOutcomes == {"result_ok", "dict_error", "nothing", "raise_msg", "raise_base"}
\* a handler is a function or a coroutine function (inspect.iscoroutinefunction)
Handlers == {h \in [async : BOOLEAN, does : Outcomes] :
               h.async => h.does \in AsyncOutcomes}

\* the AdapterResult dataclass
AdapterResult(success, data, error) ==
  [success |-> success, data |-> data, error |-> error]
\* AdapterResult.ok(**data)
ok(data) == AdapterResult(TRUE, data, None)
\* AdapterResult.fail(error, **data)
fail(error, data) == AdapterResult(FALSE, data, error)
\* `if self.error:`
Truthy(e) == e # None /\ e # EmptyStr
\* AdapterResult.to_wire
to_wire(r) ==
  IF Truthy(r.error)
  THEN [success |-> r.success, data |-> r.data, error |-> r.error]
  ELSE [success |-> r.success, data |-> r.data]

\* the handler raises an Exception / a BaseException that is not one
RaisesException(h) == h.does \in {"raise_msg", "raise_empty"}
RaisesBase(h) == h.does = "raise_base"
\* str(e) of the exception the handler raises
ExcMessage(h) == IF h.does = "raise_msg" THEN <<"boom">> ELSE EmptyStr
\* a dict with status "error", with and without an error field
ErrorDict == {<<"status", <<"error">>>>, <<"error", <<"bad">>>>}
BareErrorDict == {<<"status", <<"error">>>>}
\* the value `handler(params)` evaluates to, for a handler that returns
ReturnValue(h, t) ==
  CASE h.does = "result_ok"       -> [kind |-> "result", result |-> ok(DataOf(t)),
                                      dict |-> NoData]
    [] h.does = "result_fail"     -> [kind |-> "result",
                                      result |-> fail(<<"failed">>, NoData),
                                      dict |-> NoData]
    [] h.does = "result_odd"      -> [kind |-> "result",
                                      result |-> AdapterResult(TRUE, NoData, <<"partial">>),
                                      dict |-> NoData]
    [] h.does = "dict"            -> [kind |-> "dict", result |-> ok(NoData),
                                      dict |-> DataOf(t)]
    [] h.does = "dict_error"      -> [kind |-> "dict", result |-> ok(NoData),
                                      dict |-> ErrorDict]
    [] h.does = "dict_error_bare" -> [kind |-> "dict", result |-> ok(NoData),
                                      dict |-> BareErrorDict]
    [] OTHER                      -> [kind |-> "none", result |-> ok(NoData),
                                      dict |-> NoData]

\* mutant of Returned_: every dict becomes the data of a success
Returned_DictIsData(h, t) ==
  LET v == ReturnValue(h, t)
  IN IF v.kind = "result" THEN v.result
     ELSE IF v.kind = "dict" THEN AdapterResult(TRUE, v.dict, None)
     ELSE ok(NoData)

\* what execute() makes of the value a handler returned (lines 121-130)
Returned_(h, t) ==
  LET v == ReturnValue(h, t)
  IN IF v.kind = "result" THEN v.result
     ELSE IF v.kind = "dict"
     THEN IF Get(v.dict, "status", None) = <<"error">>
          THEN fail(Get(v.dict, "error", <<"Unknown error">>), NoData)
          ELSE AdapterResult(TRUE, v.dict, None)
     ELSE ok(NoData)

\* the result slot of a call that raised
NoReturn == AdapterResult(FALSE, NoData, <<"<raised>">>)

\* mutant of Dispatch: an exception of the handler leaves execute()
Dispatch_Propagates(hs, t) ==
  IF t \notin DOMAIN hs
  THEN [result |-> fail(<<"Unknown command: ">> \o <<t>>, NoData), invoked |-> 0,
        raised |-> FALSE]
  ELSE IF RaisesException(hs[t]) \/ RaisesBase(hs[t])
  THEN [result |-> NoReturn, invoked |-> 1, raised |-> TRUE]
  ELSE [result |-> Returned_(hs[t], t), invoked |-> 1, raised |-> FALSE]

\* mutant of Dispatch: the failure for an unknown command does not name it
Dispatch_UnnamedUnknown(hs, t) ==
  IF t \notin DOMAIN hs
  THEN [result |-> fail(<<"Unknown command">>, NoData), invoked |-> 0,
        raised |-> FALSE]
  ELSE IF RaisesException(hs[t])
  THEN [result |-> fail(ExcMessage(hs[t]), NoData), invoked |-> 1, raised |-> FALSE]
  ELSE IF RaisesBase(hs[t])
  THEN [result |-> NoReturn, invoked |-> 1, raised |-> TRUE]
  ELSE [result |-> Returned_(hs[t], t), invoked |-> 1, raised |-> FALSE]

\* BaseAdapter.execute on registry hs: the Result it returns, how many handlers
\* it invoked, and whether an exception left it
Dispatch(hs, t) ==
  IF t \notin DOMAIN hs
  THEN [result |-> fail(<<"Unknown command: ">> \o <<t>>, NoData), invoked |-> 0,
        raised |-> FALSE]
  ELSE IF RaisesException(hs[t])
  THEN [result |-> fail(ExcMessage(hs[t]), NoData), invoked |-> 1, raised |-> FALSE]
  ELSE IF RaisesBase(hs[t])
  THEN [result |-> NoReturn, invoked |-> 1, raised |-> TRUE]
  ELSE [result |-> Returned_(hs[t], t), invoked |-> 1, raised |-> FALSE]

\* `handler` of a call that found none
NoHandler == [async |-> FALSE, does |-> "nothing"]

NoExec == [type |-> "", before |-> EmptyMap, after |-> EmptyMap, result |-> NoReturn,
           invoked |-> 0, raised |-> FALSE, ran |-> NoHandler, latest |-> EmptyMap]

\* ---------------------------------------------------- adapter: members
\* A member name is a sequence of tokens, so that startswith and the slice
\* name[prefix_len:] are computed on it; Join is the string the tokens spell.
Join(n) ==
  CASE n = <<>>                            -> ""
    [] n = <<"create_box">>                -> "create_box"
    [] n = <<"export">>                    -> "export"
    [] n = <<"version">>                   -> "version"
    [] n = <<"cmd_", "create_box">>        -> "cmd_create_box"
    [] n = <<"cmd_", "export">>            -> "cmd_export"
    [] n = <<"cmd_", "version">>           -> "cmd_version"
    [] n = <<"_", "cmd_", "create_box">>   -> "_cmd_create_box"
    [] n = <<"_", "cmd_", "export">>       -> "_cmd_export"
    [] n = <<"_", "cmd_", "version">>      -> "_cmd_version"
    [] n = <<"execute">>                   -> "execute"
    [] OTHER                               -> "?"

\* dir(self) of an adapter subclass, in dir()'s sorted order: two handler
\* methods, a data attribute with the handler prefix, and an inherited method.
\* `handler` is what getattr(self, name) does when it is called with params.
Dir ==
  << [name |-> <<"_", "cmd_", "create_box">>, callable |-> TRUE,
      handler |-> [async |-> FALSE, does |-> "result_ok"]],
     [name |-> <<"_", "cmd_", "export">>, callable |-> TRUE,
      handler |-> [async |-> FALSE, does |-> "dict"]],
     [name |-> <<"_", "cmd_", "version">>, callable |-> FALSE,
      handler |-> NoHandler],
     [name |-> <<"execute">>, callable |-> TRUE,
      handler |-> [async |-> TRUE, does |-> "raise_msg"]] >>

\* the prefixes the callers pass: the default, a shorter one, the empty one,
\* a whole member name, and one that no member has
Prefixes == {<<"_", "cmd_">>, <<"_">>, <<>>, <<"execute">>, <<"on_">>}

\* name.startswith(prefix)
startswith(n, prefix) ==
  /\ Len(prefix) <= Len(n)
  /\ SubSeq(n, 1, Len(prefix)) = prefix
\* mutant of Slice: the whole name is the command type
Slice_WholeName(n, prefix_len) == n
\* name[prefix_len:]
Slice(n, prefix_len) == SubSeq(n, prefix_len + 1, Len(n))

\* the loop of register_handlers_by_prefix over dir(self)[i..], on registry hs
RECURSIVE ByPrefixFrom(_, _, _)
ByPrefixFrom(hs, prefix, i) ==
  IF i > Len(Dir) THEN hs
  ELSE LET m == Dir[i]
       IN IF startswith(m.name, prefix) /\ m.callable
          THEN ByPrefixFrom(MapPut(hs, Join(Slice(m.name, Len(prefix))), m.handler),
                            prefix, i + 1)
          ELSE ByPrefixFrom(hs, prefix, i + 1)

NoReg == [call |-> "none", type |-> "", handler |-> NoHandler, prefix |-> <<>>,
          before |-> EmptyMap, after |-> EmptyMap, repeat |-> FALSE, applied |-> {}]

\* BaseAdapter.__init__
AdapterInit ==
  /\ handlers = EmptyMap
  /\ lastExec = NoExec
  /\ nreg = 0
  /\ nexec = 0
  /\ lastReg = NoReg
  /\ latest = handlers

\* ------------------------------------------------------ adapter: actions
\* mutant of register_handler: a type that has a handler keeps it
register_handler_KeepsFirst(t, h) ==
  /\ nreg < MaxRegisters
  /\ nreg' = nreg + 1
  /\ handlers' = IF t \in DOMAIN handlers THEN handlers ELSE MapPut(handlers, t, h)
  /\ latest' = MapPut(latest, t, h)
  /\ lastReg' = [call |-> "register_handler", type |-> t, handler |-> h,
                 prefix |-> <<>>, before |-> handlers, after |-> handlers',
                 repeat |-> FALSE, applied |-> lastReg.applied]
  /\ UNCHANGED <<lastExec, nexec>>
  /\ UNCHANGED <<serverVars, clientVars, wireVars, runnerVars, transportVars>>

\* register_handler(command_type, handler)
register_handler(t, h) ==
  /\ nreg < MaxRegisters
  /\ nreg' = nreg + 1
  /\ handlers' = MapPut(handlers, t, h)
  /\ latest' = MapPut(latest, t, h)
  /\ lastReg' = [call |-> "register_handler", type |-> t, handler |-> h,
                 prefix |-> <<>>, before |-> handlers, after |-> handlers',
                 repeat |-> FALSE, applied |-> lastReg.applied]
  /\ UNCHANGED <<lastExec, nexec>>
  /\ UNCHANGED <<serverVars, clientVars, wireVars, runnerVars, transportVars>>

\* register_handlers_by_prefix(prefix)
register_handlers_by_prefix(prefix) ==
  /\ nreg < MaxRegisters
  /\ nreg' = nreg + 1
  /\ handlers' = ByPrefixFrom(handlers, prefix, 1)
  /\ latest' = ByPrefixFrom(latest, prefix, 1)
  /\ lastReg' = [call |-> "by_prefix", type |-> "", handler |-> NoHandler,
                 prefix |-> prefix, before |-> handlers, after |-> handlers',
                 repeat |-> prefix \in lastReg.applied,
                 applied |-> lastReg.applied \cup {prefix}]
  /\ UNCHANGED <<lastExec, nexec>>
  /\ UNCHANGED <<serverVars, clientVars, wireVars, runnerVars, transportVars>>

\* execute(command_type, params), up to its return
execute(t) ==
  /\ nexec < MaxExecutes
  /\ nexec' = nexec + 1
  /\ UNCHANGED <<handlers, lastReg, latest, nreg>>
  /\ LET d == Dispatch(handlers, t)
     IN lastExec' = [type |-> t, before |-> handlers, after |-> handlers',
                     result |-> d.result, invoked |-> d.invoked, raised |-> d.raised,
                     ran |-> IF t \in DOMAIN handlers THEN handlers[t] ELSE NoHandler,
                     latest |-> latest]
  /\ UNCHANGED <<serverVars, clientVars, wireVars, runnerVars, transportVars>>

\* the command types execute() is asked for: the two the callers use and one
\* that only a prefix registration provides
ExecuteTypes == CommandTypes \cup {"cmd_export"}

AdapterNext ==
  \/ \E t \in CommandTypes, h \in Handlers : register_handler(t, h)
  \/ \E prefix \in Prefixes : register_handlers_by_prefix(prefix)
  \/ \E t \in ExecuteTypes : execute(t)

\* ---------------------------------------------------------- client: Init
\* no execute_command is being dispatched
NoPending == [rid |-> 0, type |-> "", result |-> NoReturn, calls |-> 0]
\* nothing written to a handle yet
NothingSent == [first |-> "", registrations |-> 0, total |-> 0]
\* no message written yet
NoMessage == [type |-> ""]
\* no inbound message handled yet
NoneHandled == [kind |-> "", rid |-> 0, type |-> "", healthy |-> FALSE, held |-> FALSE,
                calls |-> 0, replies |-> 0, afterDisconnect |-> FALSE,
                afterIgnored |-> FALSE]

\* the handlers the attached adapter's constructor registered
SampleHandlers ==
  [t \in CommandTypes |->
     IF t = "create_box" THEN [async |-> FALSE, does |-> "result_ok"]
                         ELSE [async |-> TRUE, does |-> "raise_msg"]]

\* BaseServerClient.__init__
ClientInit ==
  /\ state = "disconnected"
  /\ ws = 0
  /\ reconnect_attempts = 0
  /\ running = FALSE
  /\ rpc = "idle"
  /\ dpc = "idle"
  /\ iterWs = 0
  /\ wsOpen = {}
  /\ handles = 0
  /\ nmsgs = 0
  /\ lastConnect = "none"
  /\ consecFails = 0
  /\ lastStep = "init"
  /\ exitReason = "none"
  /\ adapter \in {0, 1}
  /\ sentOn = [h \in 1..MaxConnects |-> NothingSent]
  /\ lastSent = NoMessage
  /\ handled = NoneHandled
  /\ pending = NoPending
  /\ connectedOn = {}
  /\ lastDisc = "none"

\* is_connected
IsConnected == state = "connected" /\ ws # 0

\* The client runs on one event loop: a task runs alone from one `await` to the
\* next.  These are the positions at which a task is suspended in an `await`
\* (or has not started, or has returned); another task acts only then.
RunSuspended == rpc \in {"idle", "connecting", "registering", "sleeping", "errsleep",
                         "recv", "dispatching", "hclosing", "done"}
DiscSuspended == dpc \in {"idle", "closing"}

\* --------------------------------------------------- client: messages
\* the registration record of _register (lines 128-135)
Registration ==
  IF adapter # 0
  THEN [type |-> "adapter_registration", version |-> "1.0.0",
        commands |-> DOMAIN handlers]
  ELSE [type |-> "adapter_registration", version |-> "1.0.0"]

\* {**left, **right} for records with disjoint fields
Merge(left, right) ==
  [f \in (DOMAIN left) \cup (DOMAIN right) |->
     IF f \in DOMAIN right THEN right[f] ELSE left[f]]

\* mutant of CommandResult: the Result's error is always written
CommandResult_AlwaysError(rid, r) ==
  [type |-> "command_result", request_id |-> rid, success |-> r.success,
   data |-> r.data, error |-> r.error]

\* the reply of _handle_execute_command with an adapter (lines 249-253)
CommandResult(rid, r) ==
  Merge([type |-> "command_result", request_id |-> rid], to_wire(r))

\* the reply of _handle_execute_command without an adapter (lines 237-242)
NoAdapterResult(rid) ==
  [type |-> "command_result", request_id |-> rid, success |-> FALSE,
   error |-> <<"No adapter configured">>]

\* mutant of HealthResponse: the adapter's answer is not passed on
HealthResponse_AlwaysHealthy(rid, healthy) ==
  [type |-> "health_check_response", request_id |-> rid, adapter_healthy |-> TRUE]

\* the reply of _handle_health_check (lines 265-269)
HealthResponse(rid, healthy) ==
  [type |-> "health_check_response", request_id |-> rid, adapter_healthy |-> healthy]

\* _send writes only when a handle is held, and the write succeeds only on an
\* open connection (lines 202-204); _handle_message swallows the exception
\* otherwise (lines 224-225)
CanSend == ws # 0 /\ ws \in wsOpen
\* the record of handle h after msg was written to it
Written(h, msg) ==
  [sentOn EXCEPT ![h] =
     [first |-> IF @.total = 0 THEN msg.type ELSE @.first,
      registrations |-> @.registrations + (IF msg.type = "adapter_registration" THEN 1 ELSE 0),
      total |-> @.total + 1]]
\* `await self._send(response)` within _handle_message
Send(msg) ==
  IF CanSend
  THEN sentOn' = Written(ws, msg) /\ lastSent' = msg
  ELSE UNCHANGED <<sentOn, lastSent>>
\* messages written so far
RECURSIVE TotalUpTo(_, _)
TotalUpTo(so, h) == IF h = 0 THEN 0 ELSE so[h].total + TotalUpTo(so, h - 1)
Total(so) == TotalUpTo(so, MaxConnects)

\* an inbound message as handled: its kind, request id and command type, the
\* adapter's health answer, whether a reply could be written, the
\* adapter.execute calls made for it (with its command type), the messages
\* written for it, whether a disconnect message has been handled by then, and
\* whether an ignored message was handled before it
Handled(kind, rid, t, healthy, calls, replies) ==
  [kind |-> kind, rid |-> rid, type |-> t, healthy |-> healthy, held |-> CanSend,
   calls |-> calls, replies |-> replies,
   afterDisconnect |-> (handled.afterDisconnect \/ kind = "disconnect"),
   afterIgnored |-> (handled.afterIgnored \/ handled.kind \in {"unknown", "malformed"})]

\* how a disconnect() that returns leaves the client
Left(r, w, st) == IF r = FALSE /\ w = 0 /\ st = "disconnected" THEN "ok" ELSE "bad"

\* ------------------------------------------------------- client: run()
\* `self._running = True`
RunStart ==
  /\ rpc = "idle"
  /\ DiscSuspended
  /\ running' = TRUE
  /\ rpc' = "loop"
  /\ UNCHANGED <<state, ws, reconnect_attempts, dpc, iterWs, wsOpen, handles, nmsgs,
                 lastConnect, consecFails, lastStep, exitReason>>
  /\ UNCHANGED wireVars
  /\ UNCHANGED <<serverVars, adapterVars, runnerVars, transportVars>>

\* mutant of RunLoop: the counter is reset whenever a new attempt starts
RunLoop_ResetsCounter ==
  /\ rpc = "loop"
  /\ IF ~running
     THEN /\ rpc' = "done"
          /\ exitReason' = "stopped"
          /\ UNCHANGED <<state, lastStep, lastConnect, reconnect_attempts>>
     ELSE IF IsConnected
     THEN /\ rpc' = "iter"
          /\ UNCHANGED <<state, lastStep, lastConnect, exitReason, reconnect_attempts>>
     ELSE /\ state' = "connecting"
          /\ reconnect_attempts' = 0
          /\ lastStep' = "connect"
          /\ lastConnect' = "pending"
          /\ rpc' = "connecting"
          /\ UNCHANGED exitReason
  /\ UNCHANGED <<ws, running, dpc, iterWs, wsOpen, handles, nmsgs,
                 consecFails>>
  /\ UNCHANGED wireVars
  /\ UNCHANGED <<serverVars, adapterVars, runnerVars, transportVars>>

\* `while self._running:` and `if not self.is_connected:`; connect() sets
\* CONNECTING and awaits websockets.connect (lines 166-168, 100-110)
RunLoop ==
  /\ rpc = "loop"
  /\ IF ~running
     THEN /\ rpc' = "done"
          /\ exitReason' = "stopped"
          /\ UNCHANGED <<state, lastStep, lastConnect>>
     ELSE IF IsConnected
     THEN /\ rpc' = "iter"
          /\ UNCHANGED <<state, lastStep, lastConnect, exitReason>>
     ELSE /\ state' = "connecting"
          /\ lastStep' = "connect"
          /\ lastConnect' = "pending"
          /\ rpc' = "connecting"
          /\ UNCHANGED exitReason
  /\ UNCHANGED <<ws, reconnect_attempts, running, dpc, iterWs, wsOpen, handles, nmsgs,
                 consecFails>>
  /\ UNCHANGED wireVars
  /\ UNCHANGED <<serverVars, adapterVars, runnerVars, transportVars>>

\* websockets.connect returns a handle: `self._ws = ...`; _register() builds the
\* registration and awaits its send (lines 110-116, 126-136, 202-204)
ConnectOpened ==
  /\ rpc = "connecting"
  /\ DiscSuspended
  /\ handles < MaxConnects
  /\ handles' = handles + 1
  /\ ws' = handles + 1
  /\ wsOpen' = wsOpen \cup {handles + 1}
  /\ rpc' = "registering"
  /\ UNCHANGED <<state, reconnect_attempts, running, dpc, iterWs, nmsgs, lastConnect,
                 consecFails, lastStep, exitReason>>
  /\ UNCHANGED wireVars
  /\ UNCHANGED <<serverVars, adapterVars, runnerVars, transportVars>>

\* mutant of ConnectFailed: the failure path does not revert the state
ConnectFailed_KeepsState ==
  /\ state' = state
  /\ lastStep' = "connect"
  /\ lastConnect' = "false"
  /\ consecFails' = consecFails + 1
  /\ rpc' = "failed"
  /\ UNCHANGED <<ws, reconnect_attempts, running, dpc, iterWs, wsOpen, handles, nmsgs,
                 exitReason>>
  /\ UNCHANGED wireVars
  /\ UNCHANGED <<serverVars, adapterVars, runnerVars, transportVars>>

\* connect() fails: `except Exception:` sets DISCONNECTED and returns False
ConnectFailed ==
  /\ state' = "disconnected"
  /\ lastStep' = "connect"
  /\ lastConnect' = "false"
  /\ consecFails' = consecFails + 1
  /\ rpc' = "failed"
  /\ UNCHANGED <<ws, reconnect_attempts, running, dpc, iterWs, wsOpen, handles, nmsgs,
                 exitReason>>
  /\ UNCHANGED wireVars
  /\ UNCHANGED <<serverVars, adapterVars, runnerVars, transportVars>>

\* websockets.connect raises
ConnectOpenFailed ==
  /\ rpc = "connecting"
  /\ DiscSuspended
  /\ ConnectFailed

\* the registration send raises
RegisterFailed ==
  /\ rpc = "registering"
  /\ DiscSuspended
  /\ ConnectFailed

\* mutant of RegisterSent: connect() does not register
RegisterSent_Unregistered ==
  /\ rpc = "registering"
  /\ DiscSuspended
  /\ state' = "connected"
  /\ lastStep' = "connect"
  /\ reconnect_attempts' = 0
  /\ consecFails' = 0
  /\ lastConnect' = "true"
  /\ rpc' = "iter"
  /\ connectedOn' = connectedOn \cup {handles}
  /\ UNCHANGED <<ws, running, dpc, iterWs, wsOpen, handles, nmsgs, exitReason>>
  /\ UNCHANGED <<adapter, sentOn, lastSent, handled, pending, lastDisc>>
  /\ UNCHANGED <<serverVars, adapterVars, runnerVars, transportVars>>

\* the registration is sent on the handle just opened: CONNECTED, counter reset,
\* return True (lines 116-120)
RegisterSent ==
  /\ rpc = "registering"
  /\ DiscSuspended
  /\ state' = "connected"
  /\ lastStep' = "connect"
  /\ reconnect_attempts' = 0
  /\ consecFails' = 0
  /\ lastConnect' = "true"
  /\ rpc' = "iter"
  /\ sentOn' = Written(handles, Registration)
  /\ lastSent' = Registration
  /\ connectedOn' = connectedOn \cup {handles}
  /\ UNCHANGED <<ws, running, dpc, iterWs, wsOpen, handles, nmsgs, exitReason>>
  /\ UNCHANGED <<adapter, handled, pending, lastDisc>>
  /\ UNCHANGED <<serverVars, adapterVars, runnerVars, transportVars>>

\* mutant of RunConnectFailed: `>=` in place of `>`
RunConnectFailed_GivesUpEarly ==
  /\ rpc = "failed"
  /\ reconnect_attempts' = reconnect_attempts + 1
  /\ IF reconnect_attempts + 1 >= MaxReconnectAttempts
     THEN /\ rpc' = "done"
          /\ exitReason' = "exhausted"
     ELSE /\ rpc' = "sleeping"
          /\ UNCHANGED exitReason
  /\ UNCHANGED <<state, ws, running, dpc, iterWs, wsOpen, handles, nmsgs, lastConnect,
                 consecFails, lastStep>>
  /\ UNCHANGED wireVars
  /\ UNCHANGED <<serverVars, adapterVars, runnerVars, transportVars>>

\* connect() returned False (lines 169-179): count the attempt, give up or sleep
RunConnectFailed ==
  /\ rpc = "failed"
  /\ reconnect_attempts' = reconnect_attempts + 1
  /\ IF reconnect_attempts + 1 > MaxReconnectAttempts
     THEN /\ rpc' = "done"
          /\ exitReason' = "exhausted"
     ELSE /\ rpc' = "sleeping"
          /\ UNCHANGED exitReason
  /\ UNCHANGED <<state, ws, running, dpc, iterWs, wsOpen, handles, nmsgs, lastConnect,
                 consecFails, lastStep>>
  /\ UNCHANGED wireVars
  /\ UNCHANGED <<serverVars, adapterVars, runnerVars, transportVars>>

\* asyncio.sleep(reconnect_delay) or asyncio.sleep(1) returns
RunSleepDone ==
  /\ rpc \in {"sleeping", "errsleep"}
  /\ DiscSuspended
  /\ rpc' = "loop"
  /\ UNCHANGED <<state, ws, reconnect_attempts, running, dpc, iterWs, wsOpen, handles,
                 nmsgs, lastConnect, consecFails, lastStep, exitReason>>
  /\ UNCHANGED wireVars
  /\ UNCHANGED <<serverVars, adapterVars, runnerVars, transportVars>>

\* `async for message in self._ws:` starts; iterating None raises TypeError,
\* which `except Exception` takes (lines 182, 188-191)
RunIterate ==
  /\ rpc = "iter"
  /\ IF ws # 0
     THEN /\ iterWs' = ws
          /\ rpc' = "recv"
          /\ UNCHANGED <<state, lastStep>>
     ELSE /\ state' = "reconnecting"
          /\ lastStep' = "run"
          /\ rpc' = "errsleep"
          /\ UNCHANGED iterWs
  /\ UNCHANGED <<ws, reconnect_attempts, running, dpc, wsOpen, handles, nmsgs,
                 lastConnect, consecFails, exitReason>>
  /\ UNCHANGED wireVars
  /\ UNCHANGED <<serverVars, adapterVars, runnerVars, transportVars>>

\* the kinds of inbound message handled in one step: a payload json.loads
\* rejects, a type without a handler, a health check
ReplyKinds == {"health_check", "unknown", "malformed"}

\* mutant of RunMessage: an exception of the handling leaves the message loop
RunMessage_Fatal(kind) ==
  /\ rpc = "recv"
  /\ DiscSuspended
  /\ kind \in ReplyKinds
  /\ nmsgs < MaxMsgs
  /\ nmsgs' = nmsgs + 1
  /\ \E healthy \in (IF kind = "health_check" /\ adapter # 0 THEN BOOLEAN ELSE {FALSE}) :
       /\ IF kind = "health_check"
          THEN Send(HealthResponse(nmsgs + 1, healthy))
          ELSE UNCHANGED <<sentOn, lastSent>>
       /\ handled' = Handled(kind, nmsgs + 1, "", healthy, 0,
                             Total(sentOn') - Total(sentOn))
  /\ IF kind = "health_check"
     THEN UNCHANGED <<state, rpc, lastStep>>
     ELSE /\ state' = "reconnecting"
          /\ lastStep' = "run"
          /\ rpc' = "errsleep"
  /\ UNCHANGED <<ws, reconnect_attempts, running, dpc, iterWs, wsOpen,
                 handles, lastConnect, consecFails, exitReason>>
  /\ UNCHANGED <<adapter, pending, connectedOn, lastDisc>>
  /\ UNCHANGED <<serverVars, adapterVars, runnerVars, transportVars>>

\* _handle_message for a message that is not execute_command or disconnect
\* (lines 206-225, 255-269): a health check is answered with
\* adapter.health_check(), or False without an adapter; the others are logged
RunMessage(kind) ==
  /\ rpc = "recv"
  /\ DiscSuspended
  /\ kind \in ReplyKinds
  /\ nmsgs < MaxMsgs
  /\ nmsgs' = nmsgs + 1
  /\ \E healthy \in (IF kind = "health_check" /\ adapter # 0 THEN BOOLEAN ELSE {FALSE}) :
       /\ IF kind = "health_check"
          THEN Send(HealthResponse(nmsgs + 1, healthy))
          ELSE UNCHANGED <<sentOn, lastSent>>
       /\ handled' = Handled(kind, nmsgs + 1, "", healthy, 0,
                             Total(sentOn') - Total(sentOn))
  /\ UNCHANGED <<state, ws, reconnect_attempts, running, rpc, dpc, iterWs, wsOpen,
                 handles, lastConnect, consecFails, lastStep, exitReason>>
  /\ UNCHANGED <<adapter, pending, connectedOn, lastDisc>>
  /\ UNCHANGED <<serverVars, adapterVars, runnerVars, transportVars>>

\* _handle_execute_command (lines 227-253): without an adapter the synthetic
\* failure is the reply; with one, adapter.execute is called, and the reply is
\* written in this step unless the handler is a coroutine function, whose
\* await suspends the task
RunExecuteCommand(t) ==
  /\ rpc = "recv"
  /\ DiscSuspended
  /\ nmsgs < MaxMsgs
  /\ nmsgs' = nmsgs + 1
  /\ IF adapter = 0
     THEN /\ Send(NoAdapterResult(nmsgs + 1))
          /\ handled' = Handled("execute_command", nmsgs + 1, t, FALSE, 0,
                                Total(sentOn') - Total(sentOn))
          /\ UNCHANGED <<pending, rpc>>
     ELSE IF t \in DOMAIN handlers /\ handlers[t].async
     THEN /\ pending' = [rid |-> nmsgs + 1, type |-> t,
                         result |-> Dispatch(handlers, t).result, calls |-> 1]
          /\ rpc' = "dispatching"
          /\ UNCHANGED <<sentOn, lastSent, handled>>
     ELSE /\ Send(CommandResult(nmsgs + 1, Dispatch(handlers, t).result))
          /\ handled' = Handled("execute_command", nmsgs + 1, t, FALSE, 1,
                                Total(sentOn') - Total(sentOn))
          /\ UNCHANGED <<pending, rpc>>
  /\ UNCHANGED <<state, ws, reconnect_attempts, running, dpc, iterWs, wsOpen,
                 handles, lastConnect, consecFails, lastStep, exitReason>>
  /\ UNCHANGED <<adapter, connectedOn, lastDisc>>
  /\ UNCHANGED <<serverVars, adapterVars, runnerVars, transportVars>>

\* the awaited handler has finished: the reply is written (lines 249-253, 218-219)
RunExecuteReply ==
  /\ rpc = "dispatching"
  /\ DiscSuspended
  /\ Send(CommandResult(pending.rid, pending.result))
  /\ handled' = Handled("execute_command", pending.rid, pending.type, FALSE,
                        pending.calls, Total(sentOn') - Total(sentOn))
  /\ pending' = NoPending
  /\ rpc' = "recv"
  /\ UNCHANGED <<state, ws, reconnect_attempts, running, dpc, iterWs, wsOpen,
                 handles, nmsgs, lastConnect, consecFails, lastStep, exitReason>>
  /\ UNCHANGED <<adapter, connectedOn, lastDisc>>
  /\ UNCHANGED <<serverVars, adapterVars, runnerVars, transportVars>>

\* a disconnect message: _handle_disconnect calls disconnect() (lines 271-282,
\* 139-146), which awaits the close when a handle is held
RunDisconnectMessage ==
  /\ rpc = "recv"
  /\ DiscSuspended
  /\ nmsgs < MaxMsgs
  /\ nmsgs' = nmsgs + 1
  /\ handled' = Handled("disconnect", nmsgs + 1, "", FALSE, 0, 0)
  /\ running' = FALSE
  /\ UNCHANGED <<ws, reconnect_attempts, dpc, iterWs, handles, lastConnect,
                 consecFails, exitReason>>
  /\ IF ws # 0
     THEN /\ wsOpen' = wsOpen \ {ws}
          /\ rpc' = "hclosing"
          /\ UNCHANGED <<state, lastStep, lastDisc>>
     ELSE /\ state' = "disconnected"
          /\ lastStep' = "disconnect"
          /\ lastDisc' = Left(running', ws', state')
          /\ UNCHANGED <<wsOpen, rpc>>
  /\ UNCHANGED <<adapter, sentOn, lastSent, pending, connectedOn>>
  /\ UNCHANGED <<serverVars, adapterVars, runnerVars, transportVars>>

\* the close awaited by _handle_disconnect returns (lines 144-145)
RunDisconnectClosed ==
  /\ rpc = "hclosing"
  /\ DiscSuspended
  /\ ws' = 0
  /\ state' = "disconnected"
  /\ lastStep' = "disconnect"
  /\ rpc' = "recv"
  /\ UNCHANGED <<reconnect_attempts, running, dpc, iterWs, wsOpen, handles, nmsgs,
                 lastConnect, consecFails, exitReason>>
  /\ lastDisc' = Left(running', ws', state')
  /\ UNCHANGED <<adapter, sentOn, lastSent, handled, pending, connectedOn>>
  /\ UNCHANGED <<serverVars, adapterVars, runnerVars, transportVars>>

\* the iteration ends without an exception (the connection closed normally)
RunIterEnded ==
  /\ rpc = "recv"
  /\ DiscSuspended
  /\ wsOpen' = wsOpen \ {iterWs}
  /\ rpc' = "loop"
  /\ UNCHANGED <<state, ws, reconnect_attempts, running, dpc, iterWs, handles, nmsgs,
                 lastConnect, consecFails, lastStep, exitReason>>
  /\ UNCHANGED wireVars
  /\ UNCHANGED <<serverVars, adapterVars, runnerVars, transportVars>>

\* the iteration raises websockets.ConnectionClosed (lines 184-187)
RunConnectionClosed ==
  /\ rpc = "recv"
  /\ DiscSuspended
  /\ wsOpen' = wsOpen \ {iterWs}
  /\ state' = "reconnecting"
  /\ lastStep' = "run"
  /\ ws' = 0
  /\ rpc' = "loop"
  /\ UNCHANGED <<reconnect_attempts, running, dpc, iterWs, handles, nmsgs, lastConnect,
                 consecFails, exitReason>>
  /\ UNCHANGED wireVars
  /\ UNCHANGED <<serverVars, adapterVars, runnerVars, transportVars>>

\* the iteration raises another exception (lines 188-191)
RunIterError ==
  /\ rpc = "recv"
  /\ DiscSuspended
  /\ state' = "reconnecting"
  /\ lastStep' = "run"
  /\ rpc' = "errsleep"
  /\ UNCHANGED <<ws, reconnect_attempts, running, dpc, iterWs, wsOpen, handles, nmsgs,
                 lastConnect, consecFails, exitReason>>
  /\ UNCHANGED wireVars
  /\ UNCHANGED <<serverVars, adapterVars, runnerVars, transportVars>>

run ==
  \/ RunStart \/ RunLoop \/ ConnectOpened \/ ConnectOpenFailed \/ RegisterFailed
  \/ RegisterSent \/ RunConnectFailed \/ RunSleepDone \/ RunIterate
  \/ \E kind \in ReplyKinds : RunMessage(kind)
  \/ \E t \in CommandTypes : RunExecuteCommand(t)
  \/ RunExecuteReply
  \/ RunDisconnectMessage \/ RunDisconnectClosed
  \/ RunIterEnded \/ RunConnectionClosed \/ RunIterError

\* ------------------------------------------------ client: disconnect()
\* mutant of DisconnectBegin: the state is assigned only after a close
DisconnectBegin_NeedsHandle ==
  /\ running' = FALSE
  /\ UNCHANGED <<ws, reconnect_attempts, rpc, iterWs, handles, nmsgs, lastConnect,
                 consecFails, exitReason>>
  /\ IF ws # 0
     THEN /\ wsOpen' = wsOpen \ {ws}
          /\ dpc' = "closing"
          /\ UNCHANGED <<state, lastStep, lastDisc>>
     ELSE /\ UNCHANGED <<state, lastStep, wsOpen, dpc>>
          /\ lastDisc' = Left(running', ws', state')
  /\ UNCHANGED <<adapter, sentOn, lastSent, handled, pending, connectedOn>>
  /\ UNCHANGED <<serverVars, adapterVars, transportVars>>

\* disconnect() up to its first suspension: the flag is cleared; with a handle
\* the close is awaited, without one the state is set and the call returns
\* (lines 141-143, 145)
DisconnectBegin ==
  /\ running' = FALSE
  /\ UNCHANGED <<ws, reconnect_attempts, rpc, iterWs, handles, nmsgs, lastConnect,
                 consecFails, exitReason>>
  /\ IF ws # 0
     THEN /\ wsOpen' = wsOpen \ {ws}
          /\ dpc' = "closing"
          /\ UNCHANGED <<state, lastStep, lastDisc>>
     ELSE /\ state' = "disconnected"
          /\ lastStep' = "disconnect"
          /\ lastDisc' = Left(running', ws', state')
          /\ UNCHANGED <<wsOpen, dpc>>
  /\ UNCHANGED <<adapter, sentOn, lastSent, handled, pending, connectedOn>>
  /\ UNCHANGED <<serverVars, adapterVars, transportVars>>

\* `await self._ws.close()` returns: the handle is dropped, the state set, and
\* the call returns (lines 144-145)
DisconnectEnd ==
  /\ ws' = 0
  /\ state' = "disconnected"
  /\ lastStep' = "disconnect"
  /\ dpc' = "idle"
  /\ UNCHANGED <<reconnect_attempts, running, rpc, iterWs, wsOpen, handles, nmsgs,
                 lastConnect, consecFails, exitReason>>
  /\ lastDisc' = Left(running', ws', state')
  /\ UNCHANGED <<adapter, sentOn, lastSent, handled, pending, connectedOn>>
  /\ UNCHANGED <<serverVars, adapterVars, transportVars>>

\* disconnect() called from another task while run() is suspended
DisconnectCall ==
  /\ dpc = "idle"
  /\ RunSuspended
  /\ DisconnectBegin
  /\ UNCHANGED runnerVars

\* the close awaited by that call returns
DisconnectClosed ==
  /\ dpc = "closing"
  /\ RunSuspended
  /\ DisconnectEnd
  /\ UNCHANGED runnerVars

disconnect == DisconnectCall \/ DisconnectClosed

ClientNext == run \/ disconnect

\* ------------------------------------------------- runner: AdapterRunner
\* run() leaves by an exception: ImportError of its `import websockets`, or an
\* interruption or cancellation delivered where the task is suspended
\* (runner.py lines 70-72)
RunnerAborted ==
  /\ apc = "try"
  /\ rpc # "done"
  /\ RunSuspended
  /\ rpc' = "done"
  /\ exitReason' = IF rpc = "idle" THEN "raised" ELSE "interrupted"
  /\ UNCHANGED <<state, ws, reconnect_attempts, running, dpc, iterWs, wsOpen, handles,
                 nmsgs, lastConnect, consecFails, lastStep>>
  /\ UNCHANGED wireVars
  /\ UNCHANGED <<serverVars, adapterVars, runnerVars, transportVars>>

\* mutant of RunnerFinally: disconnect() only after run() returned
RunnerFinally_OnReturnOnly ==
  /\ apc = "try"
  /\ rpc = "done"
  /\ dpc = "idle"
  /\ IF exitReason \in {"stopped", "exhausted"}
     THEN /\ DisconnectBegin
          /\ released' = released + 1
          /\ apc' = IF ws # 0 THEN "closing" ELSE "done"
     ELSE /\ apc' = "done"
          /\ UNCHANGED <<released, clientVars, wireVars, serverVars, adapterVars, transportVars>>

\* `finally: await self._client.disconnect()` once run() has returned or
\* raised (runner.py lines 73-74)
RunnerFinally ==
  /\ apc = "try"
  /\ rpc = "done"
  /\ dpc = "idle"
  /\ DisconnectBegin
  /\ released' = released + 1
  /\ apc' = IF ws # 0 THEN "closing" ELSE "done"

\* the close awaited by that disconnect() returns, and AdapterRunner.run() ends
RunnerClosed ==
  /\ apc = "closing"
  /\ dpc = "closing"
  /\ DisconnectEnd
  /\ apc' = "done"
  /\ UNCHANGED released

RunnerNext == run \/ RunnerAborted \/ RunnerFinally \/ RunnerClosed

\* ================================================= socket client: values
\* What recv() returns: a chunk that is a whole JSON document, the first part
\* of one, or the rest of one.
Chunks == {"whole", "part", "rest"}
\* json.loads(b"".join(chunks).decode("utf-8")) succeeds
Parses(chunks) == chunks \in {<<"whole">>, <<"part", "rest">>}
\* why connect() fails: ConnectionRefusedError, socket.timeout, another OSError
ConnectErrors == {"refused", "timeout", "oserror"}
\* the exception that leaves socket_connect for each of them (lines 64-72)
ConnectRaises(err) == IF err = "oserror" THEN "OSError" ELSE "ConnectionError"

NoCall == [op |-> "none", sock |-> 0, connected |-> FALSE, steps |-> <<>>,
           chunks |-> <<>>, pending |-> "none", outcome |-> "none", value |-> "none",
           leftOpen |-> {}]

\* the sockets a call created that are not closed
OpenOf(c, ss) == {i \in {c.sock} : i # 0 /\ ss[i] # "closed"}

\* a SocketClientMixin before its first call
SocketInit ==
  /\ socks = <<>>
  /\ xpc = "idle"
  /\ call = NoCall
  /\ ncalls = 0

\* ------------------------------------------------ socket client: actions
\* socket_execute(command) and socket_health_check() both begin with
\* socket_connect(), line 59: a new socket is created
connect_Create(op) ==
  /\ xpc = "idle"
  /\ ncalls < MaxCalls
  /\ ncalls' = ncalls + 1
  /\ socks' = Append(socks, "open")
  /\ call' = [NoCall EXCEPT !.op = op, !.sock = Len(socks) + 1,
                            !.steps = <<"connect">>]
  /\ xpc' = "connecting"
  /\ UNCHANGED <<serverVars, clientVars, wireVars, runnerVars, adapterVars, listenVars>>

\* lines 60-63: connect() succeeds and socket_connect returns the socket
connect_Ok ==
  /\ xpc = "connecting"
  /\ socks' = [socks EXCEPT ![call.sock] = "connected"]
  /\ call' = [call EXCEPT !.connected = TRUE]
  /\ xpc' = IF call.op = "execute" THEN "send" ELSE "hc_close"
  /\ UNCHANGED ncalls
  /\ UNCHANGED <<serverVars, clientVars, wireVars, runnerVars, adapterVars, listenVars>>

\* lines 61, 64-72: connect() fails and an exception leaves socket_connect;
\* the socket created on line 59 is not closed. socket_execute calls
\* socket_connect outside its try, so the exception leaves it too;
\* socket_health_check catches it.
connect_Fail(err) ==
  /\ xpc = "connecting"
  /\ UNCHANGED socks
  /\ IF call.op = "execute"
     THEN /\ call' = [call EXCEPT !.outcome = "raised", !.value = ConnectRaises(err),
                                  !.leftOpen = OpenOf(call, socks')]
          /\ xpc' = "idle"
     ELSE /\ call' = [call EXCEPT !.pending = ConnectRaises(err)]
          /\ xpc' = "hc_except"
  /\ UNCHANGED ncalls
  /\ UNCHANGED <<serverVars, clientVars, wireVars, runnerVars, adapterVars, listenVars>>

\* socket_send, lines 84-86: sendall() succeeds or raises an OSError
exec_Send(sent_ok) ==
  /\ xpc = "send"
  /\ call' = [call EXCEPT !.steps = Append(@, "send"),
                          !.pending = IF sent_ok THEN "none" ELSE "OSError"]
  /\ xpc' = IF sent_ok THEN "recv" ELSE "finally"
  /\ UNCHANGED <<socks, ncalls>>
  /\ UNCHANGED <<serverVars, clientVars, wireVars, runnerVars, adapterVars, listenVars>>

\* the steps once socket_receive has called recv()
Receiving(steps) == IF steps[Len(steps)] = "receive" THEN steps
                    ELSE Append(steps, "receive")

\* socket_receive, lines 108-118: recv() returns a chunk; if what has
\* accumulated parses it is returned, else the loop goes on
exec_RecvChunk(ch) ==
  /\ xpc = "recv"
  /\ Len(call.chunks) < MaxChunks
  /\ LET chunks == Append(call.chunks, ch)
     IN /\ call' = [call EXCEPT !.steps = Receiving(@), !.chunks = chunks,
                                !.pending = IF Parses(chunks) THEN "return" ELSE "none"]
        /\ xpc' = IF Parses(chunks) THEN "finally" ELSE "recv"
  /\ UNCHANGED <<socks, ncalls>>
  /\ UNCHANGED <<serverVars, clientVars, wireVars, runnerVars, adapterVars, listenVars>>

\* lines 109-110, 120-125: recv() returns b"" (the peer closed): without a
\* chunk a ConnectionError, else the last json.loads of data that did not parse
exec_RecvEmpty ==
  /\ xpc = "recv"
  /\ call' = [call EXCEPT !.steps = Receiving(@),
                          !.pending = IF call.chunks = <<>> THEN "ConnectionError"
                                      ELSE "JSONDecodeError"]
  /\ xpc' = "finally"
  /\ UNCHANGED <<socks, ncalls>>
  /\ UNCHANGED <<serverVars, clientVars, wireVars, runnerVars, adapterVars, listenVars>>

\* line 108: recv() raises (socket.timeout or another OSError)
exec_RecvError ==
  /\ xpc = "recv"
  /\ call' = [call EXCEPT !.steps = Receiving(@), !.pending = "OSError"]
  /\ xpc' = "finally"
  /\ UNCHANGED <<socks, ncalls>>
  /\ UNCHANGED <<serverVars, clientVars, wireVars, runnerVars, adapterVars, listenVars>>

\* socket_execute, lines 152-153: `finally: sock.close()`, then the return
\* or the exception
exec_Finally ==
  /\ xpc = "finally"
  /\ socks' = [socks EXCEPT ![call.sock] = "closed"]
  /\ call' = [call EXCEPT !.steps = Append(@, "close"),
                          !.outcome = IF call.pending = "return" THEN "returned"
                                      ELSE "raised",
                          !.value = IF call.pending = "return" THEN "response"
                                    ELSE call.pending,
                          !.leftOpen = OpenOf(call, socks')]
  /\ xpc' = "idle"
  /\ UNCHANGED ncalls
  /\ UNCHANGED <<serverVars, clientVars, wireVars, runnerVars, adapterVars, listenVars>>

\* socket_health_check, lines 166-168: sock.close(); return True
hc_Close ==
  /\ xpc = "hc_close"
  /\ socks' = [socks EXCEPT ![call.sock] = "closed"]
  /\ call' = [call EXCEPT !.steps = Append(@, "close"), !.outcome = "returned",
                          !.value = "true", !.leftOpen = OpenOf(call, socks')]
  /\ xpc' = "idle"
  /\ UNCHANGED ncalls
  /\ UNCHANGED <<serverVars, clientVars, wireVars, runnerVars, adapterVars, listenVars>>

\* lines 169-170: `except (ConnectionError, OSError): return False`
hc_Except ==
  /\ xpc = "hc_except"
  /\ call' = [call EXCEPT !.outcome = "returned", !.value = "false",
                          !.pending = "none", !.leftOpen = OpenOf(call, socks)]
  /\ xpc' = "idle"
  /\ UNCHANGED <<socks, ncalls>>
  /\ UNCHANGED <<serverVars, clientVars, wireVars, runnerVars, adapterVars, listenVars>>

\* A socket that was never closed is closed by its finalizer once nothing
\* refers to it. The socket of a failed socket_connect is referred to by the
\* traceback of the exception only: it can be finalized once socket_execute
\* has raised, and in socket_health_check as soon as the except clause is
\* done with the exception. When this happens is up to the interpreter.
gc_Finalize(i) ==
  /\ i \in DOMAIN socks
  /\ socks[i] = "open"
  /\ i # call.sock \/ xpc \in {"idle", "hc_except"}
  /\ socks' = [socks EXCEPT ![i] = "closed"]
  /\ UNCHANGED <<xpc, call, ncalls>>
  /\ UNCHANGED <<serverVars, clientVars, wireVars, runnerVars, adapterVars, listenVars>>

SocketNext ==
  \/ \E op \in {"execute", "health"} : connect_Create(op)
  \/ connect_Ok
  \/ \E err \in ConnectErrors : connect_Fail(err)
  \/ \E sent_ok \in BOOLEAN : exec_Send(sent_ok)
  \/ \E ch \in Chunks : exec_RecvChunk(ch)
  \/ exec_RecvEmpty
  \/ exec_RecvError
  \/ exec_Finally
  \/ hc_Close
  \/ hc_Except
  \/ \E i \in 1..MaxCalls : gc_Finalize(i)

\* ======================================================= client: claims
\* the transitions of the documented state machine
DocumentedEdges == {<<"disconnected", "connecting">>, <<"connecting", "connected">>,
                    <<"connecting", "disconnected">>, <<"connected", "reconnecting">>,
                    <<"reconnecting", "connecting">>}

\* C6 (as stated): the state starts Disconnected and every change of it follows a
\* documented edge, or leads to Disconnected by an assignment of disconnect().
C6_DocumentedEdgesOnly ==
  /\ state = "disconnected"
  /\ [][state' # state =>
          \/ <<state, state'>> \in DocumentedEdges
          \/ (state' = "disconnected" /\ lastStep' = "disconnect")]_vars

\* C7: the counter exceeds max_reconnect_attempts only in a run() that has
\* returned for that reason; it then equals max_reconnect_attempts + 1, that many
\* connect() calls in a row have failed, and the state is Disconnected.
C7_ExhaustionEndsRun ==
  /\ reconnect_attempts > MaxReconnectAttempts => (rpc = "done" /\ exitReason = "exhausted")
  /\ exitReason = "exhausted" =>
       /\ rpc = "done"
       /\ reconnect_attempts = MaxReconnectAttempts + 1
       /\ consecFails = MaxReconnectAttempts + 1
       /\ state = "disconnected"

\* C7 witness: every connect() failed and run() has given up
C7_Witness == exitReason = "exhausted" /\ handles = 0 /\ rpc = "done"

\* C8 (as stated): whenever the iteration over inbound messages stops, the state
\* becomes Reconnecting and the handle is discarded.
C8_IterationStopReconnects ==
  [][(rpc = "recv" /\ rpc' \in {"loop", "errsleep"}) =>
       (state' = "reconnecting" /\ ws' = 0)]_vars

C10_ConnectOutcome ==
  /\ rpc = "failed" => (state = "disconnected" /\ lastConnect = "false")
  /\ (rpc = "iter" /\ lastConnect = "true") =>
       (state = "connected" /\ reconnect_attempts = 0)

\* C10 witness: the handle was opened, the registration send failed, and
\* connect() has returned False
C10_Witness == rpc = "failed" /\ ws # 0 /\ lastConnect = "false"

\* the latest step handled an inbound message of one of these kinds
JustHandled(kinds) == handled' # handled /\ handled'.kind \in kinds

\* C11: every handle on which a connect() succeeded has had exactly one
\* adapter_registration written to it, as the first message on it; whenever the
\* client is connected, its handle is such a handle.
C11_OneRegistrationPerHandle ==
  /\ \A h \in connectedOn :
       sentOn[h].registrations = 1 /\ sentOn[h].first = "adapter_registration"
  /\ IsConnected => ws \in connectedOn

\* C11 witness: after a reconnect both handles carry their own registration, and
\* the first has carried a reply after it
C11_Witness ==
  /\ connectedOn = {1, 2}
  /\ sentOn[1].registrations = 1 /\ sentOn[2].registrations = 1
  /\ sentOn[1].total >= 2

\* C12: handling an execute_command with an adapter attached calls
\* adapter.execute exactly once, with the message's command type; if the handle
\* is held and open when the reply is due, exactly one message is written: a
\* command_result with the message's request_id and the success, data and error
\* of the Result; otherwise nothing is written.
C12_ExecuteRepliesOnce ==
  [][(JustHandled({"execute_command"}) /\ adapter # 0) =>
       LET r == Dispatch(handlers, handled'.type).result
       IN /\ handled'.calls = 1
          /\ handled'.held =>
               /\ handled'.replies = 1
               /\ lastSent'.type = "command_result"
               /\ lastSent'.request_id = handled'.rid
               /\ lastSent'.success = r.success
               /\ lastSent'.data = r.data
               /\ IF Truthy(r.error)
                  THEN "error" \in DOMAIN lastSent' /\ lastSent'.error = r.error
                  ELSE "error" \notin DOMAIN lastSent'
          /\ ~handled'.held => handled'.replies = 0]_vars

\* C12 witness: the coroutine handler of "export" raised, and the failure was
\* replied under the request id of the message
C12_Witness ==
  /\ adapter # 0
  /\ handled.kind = "execute_command" /\ handled.type = "export"
  /\ handled.held /\ handled.replies = 1
  /\ lastSent.type = "command_result" /\ lastSent.request_id = handled.rid
  /\ "error" \in DOMAIN lastSent

\* C13 (as stated): every command_result written carries type, request_id,
\* success and data, and an error only when success is false.
C13_EnvelopeFields ==
  lastSent.type = "command_result" =>
    /\ {"type", "request_id", "success", "data"} \subseteq DOMAIN lastSent
    /\ "error" \in DOMAIN lastSent => lastSent.success = FALSE

\* C14: handling a health_check leaves state, handle and counter unchanged; if
\* the handle is held and open, exactly one message is written: a
\* health_check_response with the message's request_id and the adapter's
\* health_check() answer, which is false without an adapter.
C14_HealthCheckReply ==
  [][JustHandled({"health_check"}) =>
       /\ UNCHANGED <<state, ws, reconnect_attempts>>
       /\ adapter = 0 => handled'.healthy = FALSE
       /\ handled'.held =>
            /\ handled'.replies = 1
            /\ lastSent' = [type |-> "health_check_response",
                            request_id |-> handled'.rid,
                            adapter_healthy |-> handled'.healthy]
       /\ ~handled'.held => handled'.replies = 0]_vars

\* C14 witness: the adapter answered "not healthy" and that was replied
C14_Witness ==
  /\ adapter # 0
  /\ handled.kind = "health_check" /\ ~handled.healthy /\ handled.held
  /\ lastSent.type = "health_check_response" /\ lastSent.adapter_healthy = FALSE

\* C15 (as stated): once a disconnect message has been handled, nothing more is
\* written, the running flag is clear, no connect is attempted, and when run()
\* has returned the handle is None and the state is Disconnected.
C15_AfterDisconnectMessage ==
  /\ [](handled.afterDisconnect =>
          /\ ~running
          /\ rpc \notin {"connecting", "registering", "failed", "sleeping"}
          /\ rpc = "done" => (ws = 0 /\ state = "disconnected"))
  /\ [][handled.afterDisconnect => UNCHANGED <<sentOn, lastSent>>]_vars

\* the client at rest after a disconnect()
Settled == running = FALSE /\ ws = 0 /\ state = "disconnected"

\* C16: every disconnect() that returns leaves the flag clear, the handle None
\* and the state Disconnected; the handle it found is closed when the close is
\* awaited; a disconnect() on a client at rest leaves it at rest and changes
\* nothing else.
C16_DisconnectSettles ==
  /\ [](lastDisc # "bad")
  /\ [][(dpc = "idle" /\ dpc' = "closing") => (ws # 0 /\ ws \notin wsOpen')]_vars
  /\ [][(Settled /\ UNCHANGED <<rpc, handled, pending>>) =>
          (Settled' /\ UNCHANGED <<wsOpen, reconnect_attempts, sentOn, handles>>)]_vars

\* C16 witness: disconnect() was called while run() slept after an error, in
\* state Reconnecting with the handle still held, and has returned
C16_Witness ==
  /\ rpc = "errsleep" /\ dpc = "idle"
  /\ lastDisc = "ok" /\ Settled
  /\ handles >= 1 /\ wsOpen = {}

\* C17: handling a message of unknown type or an undecodable payload writes
\* nothing, changes neither state, handle, flag nor counter, and leaves run()
\* iterating, so that later messages are handled.
C17_IgnoredMessages ==
  [][JustHandled({"unknown", "malformed"}) =>
       /\ handled'.replies = 0
       /\ UNCHANGED <<state, ws, running, reconnect_attempts, sentOn, lastSent>>
       /\ rpc' = "recv"]_vars

\* C17 witness: after an ignored message a health check was handled and answered
C17_Witness ==
  /\ handled.afterIgnored
  /\ handled.kind = "health_check" /\ handled.replies = 1
  /\ lastSent.request_id = handled.rid

\* C18: AdapterRunner.run() calls disconnect() exactly once, after the client's
\* run() has returned or raised; when it has finished the state is Disconnected
\* and is_connected is False.
C18_RunnerReleases ==
  /\ released <= 1
  /\ released = 1 => rpc = "done"
  /\ apc = "done" =>
       /\ released = 1
       /\ state = "disconnected"
       /\ ~IsConnected
       /\ ws = 0

\* C18 witness: run() was interrupted while connected, and the runner finished
C18_Witness ==
  /\ apc = "done" /\ exitReason = "interrupted"
  /\ handles >= 1 /\ lastConnect = "true"
  /\ released = 1

\* the latest execute() call found a handler
Registered == lastExec.type \in DOMAIN lastExec.before

\* C19: execute() of a command type whose handler, function or coroutine
\* function, raises an Exception returns a failure Result whose error is the
\* exception's message; no exception leaves execute(), and the registry is as
\* before.
C19_HandlerExceptionIsFailure ==
  (Registered /\ RaisesException(lastExec.before[lastExec.type])) =>
    /\ ~lastExec.raised
    /\ lastExec.result.success = FALSE
    /\ lastExec.result.error = ExcMessage(lastExec.before[lastExec.type])
    /\ lastExec.after = lastExec.before

\* C19 witness: a coroutine handler raised with a message
C19_Witness ==
  /\ Registered
  /\ lastExec.before[lastExec.type] = [async |-> TRUE, does |-> "raise_msg"]
  /\ lastExec.result.error = <<"boom">>

\* C20: execute() of a command type without a handler returns success false
\* with the error "Unknown command: <type>" and invokes no handler.
C20_UnknownCommand ==
  (lastExec.type # "" /\ ~Registered) =>
    /\ lastExec.result.success = FALSE
    /\ lastExec.result.error = <<"Unknown command: ", lastExec.type>>
    /\ lastExec.invoked = 0
    /\ ~lastExec.raised

\* C20 witness: an adapter with no handler at all was asked to execute
C20_Witness ==
  /\ lastExec.type # ""
  /\ lastExec.before = EmptyMap
  /\ lastExec.result.success = FALSE

\* the latest execute() call invoked a handler that returned
HandlerReturned ==
  /\ Registered
  /\ ~RaisesException(lastExec.before[lastExec.type])
  /\ ~RaisesBase(lastExec.before[lastExec.type])

ExecReturned == lastExec.type # "" /\ ~lastExec.raised

\* C22: every Result that execute() returns, whatever its handler does, has
\* a data field and has its error set only when its success is false.
C22_ResultInvariant ==
  ExecReturned =>
    /\ "data" \in DOMAIN lastExec.result
    /\ lastExec.result.error # None => lastExec.result.success = FALSE

\* C23: for every Result r that execute() returns, the wire form r.to_wire()
\* has an error key exactly when r.error is not None, and reading success,
\* data and error (None where the key is absent) back from the wire form gives
\* r's own triple.
C23_WireRoundTrip ==
  ExecReturned =>
    LET r == lastExec.result
        w == to_wire(r)
    IN /\ ("error" \in DOMAIN w) <=> (r.error # None)
       /\ AdapterResult(w.success, w.data,
                        IF "error" \in DOMAIN w THEN w.error ELSE None) = r

\* the members of dir(self) that are callable and whose name begins with prefix
Matching(prefix) ==
  {i \in 1..Len(Dir) :
     /\ Dir[i].callable
     /\ \E r \in {SubSeq(Dir[i].name, k, Len(Dir[i].name)) :
                    k \in 1..(Len(Dir[i].name) + 1)} : prefix \o r = Dir[i].name}
\* the remainder of member i's name after prefix, as a string
Remainder(i, prefix) ==
  Join(CHOOSE r \in {SubSeq(Dir[i].name, k, Len(Dir[i].name)) :
                       k \in 1..(Len(Dir[i].name) + 1)} : prefix \o r = Dir[i].name)

\* C24: register_handlers_by_prefix(prefix) registers each callable member
\* whose name begins with prefix under the remainder of its name, adds no
\* other command type and leaves the other handlers as they were; a call with
\* a prefix that was used before on the adapter leaves the set of registered
\* command types as it was.
C24_RegisterByPrefix ==
  lastReg.call = "by_prefix" =>
    LET keys == {Remainder(i, lastReg.prefix) : i \in Matching(lastReg.prefix)}
    IN /\ \A i \in Matching(lastReg.prefix) :
            /\ Remainder(i, lastReg.prefix) \in DOMAIN lastReg.after
            /\ lastReg.after[Remainder(i, lastReg.prefix)] = Dir[i].handler
       /\ DOMAIN lastReg.after = DOMAIN lastReg.before \cup keys
       /\ \A k \in DOMAIN lastReg.before \ keys : lastReg.after[k] = lastReg.before[k]
       /\ lastReg.repeat => DOMAIN lastReg.after = DOMAIN lastReg.before

\* C24 witness: the default prefix was used twice in a row
C24_Witness ==
  /\ lastReg.call = "by_prefix"
  /\ lastReg.prefix = <<"_", "cmd_">>
  /\ lastReg.repeat
  /\ DOMAIN lastReg.after = {"create_box", "export"}
  /\ nreg = 2

\* C25: register_handler(t, h) makes h the handler of t and leaves the
\* handler of every other command type as it was; execute(t) invokes the
\* handler most recently registered for t.
C25_LatestHandlerWins ==
  /\ lastReg.call = "register_handler" =>
       /\ DOMAIN lastReg.after = DOMAIN lastReg.before \cup {lastReg.type}
       /\ lastReg.after[lastReg.type] = lastReg.handler
       /\ \A k \in DOMAIN lastReg.before \ {lastReg.type} :
            lastReg.after[k] = lastReg.before[k]
  /\ (lastExec.type # "" /\ lastExec.type \in DOMAIN lastExec.latest) =>
       /\ lastExec.invoked = 1
       /\ lastExec.ran = lastExec.latest[lastExec.type]
       /\ lastExec.result = Dispatch(lastExec.latest, lastExec.type).result

\* C25 witness: a second handler was registered for a command type that had
\* one, next to a handler of another type, and the command was then executed
C25_Witness ==
  /\ lastReg.call = "register_handler"
  /\ lastReg.type \in DOMAIN lastReg.before
  /\ lastReg.before[lastReg.type] # lastReg.handler
  /\ DOMAIN lastReg.before # {lastReg.type}
  /\ lastExec.type = lastReg.type
  /\ lastExec.before = lastReg.after
  /\ lastExec.ran = lastReg.handler

\* the latest socket_execute / socket_health_check call has returned or raised
ExecuteDone == call.op = "execute" /\ call.outcome # "none"
HealthDone == call.op = "health" /\ call.outcome # "none"

\* C26: a socket_execute call creates a socket of its own, follows connect,
\* send, receive, close, and on every exit path (a return, or a failure of
\* connect, send or receive, or the peer closing without data) leaves no
\* socket it created open when it returns or raises.
C26_ExecuteClosesSocket ==
  ExecuteDone =>
    /\ call.leftOpen = {}
    /\ call.outcome = "returned" =>
         call.steps = <<"connect", "send", "receive", "close">>
    /\ \A n \in 1..Len(call.steps) :
         call.steps[n] = <<"connect", "send", "receive", "close">>[n]
         \/ call.steps[n] = "close"

\* C27: socket_health_check returns true exactly when connect succeeded and
\* false on every connection failure; it never raises, sends no command and
\* leaves no socket open.
C27_HealthCheck ==
  HealthDone =>
    /\ call.outcome = "returned"
    /\ call.value = "true" <=> call.connected
    /\ call.value \in {"true", "false"}
    /\ \A n \in 1..Len(call.steps) : call.steps[n] \notin {"send", "receive"}
    /\ call.leftOpen = {}

\* disconnect() was called by another task after run() had started, and no
\* disconnect message was handled: run() started with the flag set, and only
\* disconnect() clears it
Cancelled ==
  /\ ~running
  /\ rpc # "idle"
  /\ handled.kind # "disconnect"
  /\ ~handled.afterDisconnect

\* C28: when disconnect() is called by another task while run() is suspended
\* (in connect or in the registration send, in the reconnect delay, or waiting
\* for the next message), run() ends, and once both calls have returned the
\* state is Disconnected.
C28_CancelledRunEndsDisconnected ==
  (Cancelled /\ rpc = "done" /\ dpc = "idle") => state = "disconnected"

\* C29: when connect() has returned False, also when the connection was
\* opened and the registration failed, the client holds no open connection
\* handle: _ws is None or closed.
C29_FailedConnectHoldsNoHandle ==
  (rpc = "failed" /\ lastConnect = "false") => (ws = 0 \/ ws \notin wsOpen)

\* every accept thread that was spawned has ended
ThreadsEnded == \A k \in Threads : lpc[k] \in {"none", "exited"}

\* C30: once server_stop() has returned (and server_start() has not been
\* called again), however its steps interleave with those of the accept
\* thread, the running flag is false and, when the accept thread has ended, no
\* listening socket is left open.
C30_StopLeavesNoListener ==
  stopDone =>
    /\ ~server_running
    /\ ThreadsEnded => \A k \in Threads : lsock[k] # "listening"

\* accept thread k was spawned by a server_start() before the latest one that
\* spawned a thread
Superseded(k) == \E j \in Threads : j > k /\ lpc[j] # "none"

\* C31: an accept thread spawned by an earlier server_start() does not go on
\* accepting once a server_stop() has been followed by a server_start() that
\* spawned a new accept thread: it never passes the loop test into accept().
C31_OneAcceptThread ==
  [][\A k \in Threads :
       Superseded(k) => ~(lpc[k] = "check" /\ lpc'[k] = "accept")]_vars

\* the server_start() calls so far that returned without spawning a thread
StartsWhileRunning == nstarts - Cardinality({k \in Threads : lpc[k] # "none"})

\* C40: server_start() called while the flag is set spawns no accept thread
\* and changes nothing of the server.
C40_StartWhileRunningIsNoOp ==
  [][(server_running /\ nstarts' = nstarts + 1) =>
       UNCHANGED <<server_running, server_socket, lpc, lsock, spc, stopDone,
                   queueVars>>]_vars

\* C40 witness: server_start() was called a second time while the first accept
\* thread was listening, and there is still one accept thread
C40_Witness ==
  /\ StartsWhileRunning = 1
  /\ server_running
  /\ lpc[1] \in {"check", "accept"}
  /\ lsock[1] = "listening"
  /\ \A k \in Threads : k # 1 => lpc[k] = "none"

\* C32: once server_stop() has returned, no per-connection thread appends a
\* further operation to the queue.
C32_NoEnqueueAfterStop ==
  [][stopDone => Len(operation_queue') <= Len(operation_queue)]_vars

\* the command of type t as its controller framed it
TokenOf(t) ==
  CHOOSE tok \in {input[t[1]][p] : p \in 1..Len(input[t[1]])} :
    tok.kind \in {"cmd", "cmda"} /\ tok.type = t

\* C33: the executor is invoked at most once per request id: no command is
\* executed twice, and no two executed commands carry the same supplied id
\* (generated ids are distinct by construction).
C33_OncePerRequestId ==
  /\ \A i \in 1..Len(execLog) : Executions(execLog[i]) <= 1
  /\ \A i, j \in 1..Len(execLog) :
       (i # j /\ TokenOf(execLog[i]).rid # NoRid) =>
         TokenOf(execLog[i]).rid # TokenOf(execLog[j]).rid

\* every returned call handed its caller the result of its own command or the
\* timeout error
OwnResults ==
  \A x \in Returned : Call(x).res \in {Executor(Call(x).op.type), TimedOut}
\* no caller's `del self._result_events[request_id]` raises: a thread at line
\* 181 ends its connection only by a failed send after the call has returned
DelNeverRaises ==
  \A c \in Conns :
    (cpc[c] = "del" /\ cpc'[c] = "closed") => Len(returned'[c]) = Len(returned[c]) + 1

\* C34: a caller of queueAndWait is only ever handed the result of its own
\* command, also when two connections supply the same request id, and no
\* caller's wait ends in an exception because the other removed the map entry.
C34_OwnResultSharedIds == []OwnResults /\ [][DelNeverRaises]_vars

\* a call made while the server is not running returns False and touches nothing
PQ_NotRunning ==
  (ppc = "idle" /\ ~server_running) =>
    /\ ppc' = "idle"
    /\ pqReturn' # pqReturn =>
         /\ pqReturn' = "False"
         /\ UNCHANGED <<operation_queue, execLog, result_map>>
\* a running call takes the head of the queue while operations are left and
\* max_ops is not used up, hands it to the executor once and stores the
\* executor's result or the error result of its exception; else it returns True
PQ_InOrder ==
  (ppc = "get" /\ (ppc' # ppc \/ pleft' # pleft \/ execLog' # execLog)) =>
    IF pleft = 0 \/ operation_queue = <<>>
    THEN /\ ppc' = "idle" /\ pqReturn' = "True"
         /\ UNCHANGED <<operation_queue, execLog>>
    ELSE /\ operation_queue' = Tail(operation_queue)
         /\ execLog' = Append(execLog, Head(operation_queue).type)
         /\ pleft' = pleft - 1
         /\ result_map'[Head(operation_queue).rid] = Executor(Head(operation_queue).type)
         /\ ppc' \in {"get", "set"}
\* after an operation's result is stored the call goes on with the next one
PQ_Continues == (ppc = "set" /\ ppc' # "set") => (ppc' = "get" /\ pqReturn' = pqReturn)

\* C37: a server_process_queue call made while the server is running dequeues
\* min(max_ops, queue length) operations in queue order, invokes the executor
\* once for each, turns an executor exception into that operation's error
\* result and continues, and returns True; a call made while the server is not
\* running dequeues nothing and returns False.
C37_ProcessQueue == [][PQ_NotRunning /\ PQ_InOrder /\ PQ_Continues]_vars

\* the next complete line in the buffer of connection c is not blank and
\* does not decode to a command object
BadLine(c) ==
  /\ cpc[c] = "frames"
  /\ HasNL(buffer[c])
  /\ LET line == Strip(SubSeq(buffer[c], 1, FirstNL(buffer[c]) - 1))
     IN line # <<>> /\ ~Decodes(line)

\* C38: a received line that does not decode to a command object is answered
\* with exactly one error response on its connection, nothing is enqueued, no
\* map entry is created, and the connection stays open for the frames after it
\* (it closes only when writing the response fails).
C38_BadLineAnswered ==
  [][\A c \in Conns :
       (BadLine(c) /\ buffer'[c] # buffer[c]) =>
         /\ Len(returned'[c]) = Len(returned[c]) + 1
         /\ returned'[c][Len(returned'[c])].res.status = "error"
         /\ UNCHANGED <<operation_queue, result_map, result_events>>
         /\ \/ cpc'[c] = "frames" /\ Len(sent'[c]) = Len(sent[c]) + 1
            \/ cpc'[c] = "closed" /\ sent'[c] = sent[c]]_vars

RECURSIVE FramesOf(_)
\* the non-blank lines framed in a byte sequence, stripped, in order
FramesOf(buf) ==
  IF ~HasNL(buf) THEN <<>>
  ELSE LET i == FirstNL(buf)
           line == Strip(SubSeq(buf, 1, i - 1))
           rest == FramesOf(SubSeq(buf, i + 1, Len(buf)))
       IN IF line = <<>> THEN rest ELSE <<line>> \o rest

\* the bytes of connection c not yet split off as a line: buffered or unread
Unframed(c) == buffer[c] \o stream[c]
\* the bytes a read of connection c took from the socket in this step
ReadNow(c) == SubSeq(stream[c], 1, Len(stream[c]) - Len(stream'[c]))

\* every read appends the bytes it received to the buffer, so that a frame
\* whose delimiter has not arrived is kept
ReadsAreBuffered ==
  \A c \in Conns : stream'[c] # stream[c] => buffer'[c] = buffer[c] \o ReadNow(c)
\* the lines handed to _server_queue_and_wait are the lines framed in the bytes
\* sent, in order, whatever the reads were
HandedAsFramed ==
  \A c \in Conns :
    /\ nframes[c] <= Len(FramesOf(input[c]))
    /\ \A k \in 1..Len(returned[c]) :
         LET line == FramesOf(input[c])[returned[c][k].frame]
         IN returned[c][k].op.type = IF Decodes(line) THEN line[1].type ELSE NoType
    /\ InCall(c) => cur[c].type = FramesOf(input[c])[nframes[c]][1].type
    /\ cpc[c] # "closed" =>
         /\ Len(Unframed(c)) <= Len(input[c])
         /\ Unframed(c) = SubSeq(input[c], Len(input[c]) - Len(Unframed(c)) + 1,
                                  Len(input[c]))
         /\ nframes[c] = Len(FramesOf(SubSeq(input[c], 1,
                                              Len(input[c]) - Len(Unframed(c)))))

\* C39: the commands a per-connection thread hands to queueAndWait depend only
\* on the bytes received, not on how the reads split them: what a read
\* delivers is appended to the buffer and an incomplete frame stays there until
\* its delimiter arrives, and the lines handed on are those framed in the
\* byte stream, in order.
C39_SplitIndependent == []HandedAsFramed /\ [][ReadsAreBuffered]_vars

\* C35: in every reachable state of the client, also when disconnect()
\* interleaves with a connect() in flight, state CONNECTED implies that a
\* connection handle is held (is_connected is true) and that the
\* reconnect-attempt counter is 0.
C35_ConnectedHoldsHandle ==
  state = "connected" => (ws # 0 /\ IsConnected /\ reconnect_attempts = 0)

\* run() is at the top of its loop after the connection it was iterating, on
\* which it was CONNECTED, has been lost, and disconnect() has not been called
ConnectionLost ==
  /\ rpc = "loop"
  /\ running
  /\ iterWs # 0
  /\ iterWs \in connectedOn
  /\ iterWs \notin wsOpen
\* the connection was lost by ConnectionClosed: RECONNECTING, handle discarded
ConnectionLostRaised == ConnectionLost /\ state = "reconnecting" /\ ws = 0
\* run() is CONNECTED on an open handle on which a registration was sent
Reconnected ==
  /\ state = "connected"
  /\ ws # 0
  /\ ws \in wsOpen
  /\ ws \in connectedOn
  /\ sentOn[ws].registrations >= 1
\* disconnect() was called, or run() returned (the attempts are used up)
GaveUp == ~running \/ rpc = "done"

\* C36: when the connection is lost while CONNECTED, then, unless disconnect()
\* is called or the server accepts no connection before the reconnect-attempt
\* counter exceeds max_reconnect_attempts, run() eventually is CONNECTED again
\* on a new handle on which a fresh registration was sent.
C36_EventuallyReconnects == ConnectionLost ~> (Reconnected \/ GaveUp)

\* the socket server as server_init() leaves it
ServerIdle ==
  /\ server_running = FALSE
  /\ server_socket = 0
  /\ ListenerIdle
  /\ operation_queue = <<>>
  /\ result_map = EmptyMap
  /\ result_events = EmptyMap
  /\ eventSet = [c \in Conns |-> FALSE]
  /\ cpc = [c \in Conns |-> "none"]
  /\ stream = [c \in Conns |-> <<>>]
  /\ buffer = [c \in Conns |-> <<>>]
  /\ cur = [c \in Conns |-> NoOp]
  /\ response = [c \in Conns |-> NoResponse]
  /\ nframes = [c \in Conns |-> 0]
  /\ sent = [c \in Conns |-> <<>>]
  /\ returned = [c \in Conns |-> <<>>]
  /\ ppc = "idle"
  /\ pcur = NoOp
  /\ pres = NoResponse
  /\ pleft = 0
  /\ pqReturn = "none"
  /\ execLog = <<>>
  /\ waited = [c \in Conns |-> "none"]
  /\ input = stream

\* the client without a runner, its adapter (if any) with its handlers
ClientIdle ==
  /\ ClientInit
  /\ apc = "none"
  /\ released = 0
  /\ handlers = IF adapter # 0 THEN SampleHandlers ELSE EmptyMap
  /\ lastExec = NoExec
  /\ nreg = 0
  /\ nexec = 0
  /\ lastReg = NoReg
  /\ latest = handlers

\* the socket server started and listening, the client as constructed
ServerSpecInit == ServerInit /\ ClientIdle /\ adapter = 0 /\ SocketInit
FramingSpecInit == FramingInit /\ ClientIdle /\ adapter = 0 /\ SocketInit

\* the client as constructed, the socket server not started
ClientSpecInit == ServerIdle /\ ClientIdle /\ SocketInit

\* AdapterRunner.run() called on a runner as constructed: the adapter is
\* attached, and run() is about to await the client's run()
RunnerSpecInit ==
  /\ ServerIdle
  /\ SocketInit
  /\ ClientInit
  /\ adapter = 1
  /\ apc = "try"
  /\ released = 0
  /\ handlers = SampleHandlers
  /\ lastExec = NoExec
  /\ nreg = 0
  /\ nexec = 0
  /\ lastReg = NoReg
  /\ latest = handlers

\* an adapter as BaseAdapter.__init__ leaves it, attached to no client
AdapterSpecInit ==
  /\ ServerIdle
  /\ SocketInit
  /\ ClientInit
  /\ adapter = 0
  /\ apc = "none"
  /\ released = 0
  /\ AdapterInit

\* a SocketClientMixin before its first call
SocketSpecInit == ServerIdle /\ SocketInit /\ ClientIdle /\ adapter = 0

\* a SocketServerMixin as server_init() leaves it, before server_start()
ListenerSpecInit == ServerIdle /\ SocketInit /\ ClientIdle /\ adapter = 0

Init == \/ ServerSpecInit \/ ClientSpecInit \/ RunnerSpecInit \/ AdapterSpecInit
        \/ SocketSpecInit

Next == \/ ServerNext \/ ClientNext \/ RunnerNext \/ AdapterNext
        \/ SocketNext \/ ListenerNext

Spec == Init /\ [][Next]_vars

\* the Threaded Socket Server alone
ServerSpec == ServerSpecInit /\ [][ServerNext]_vars

\* the Persistent Server Client alone
ClientSpec == ClientSpecInit /\ [][ClientNext]_vars

\* AdapterRunner.run() driving the client
RunnerSpec == RunnerSpecInit /\ [][RunnerNext]_vars

\* the command registry and its dispatch alone
AdapterSpec == AdapterSpecInit /\ [][AdapterNext]_vars
SocketSpec == SocketSpecInit /\ [][SocketNext]_vars
ListenerSpec == ListenerSpecInit /\ [][ListenerNext]_vars
\* the client when no other task calls disconnect(), its run() task scheduled
\* whenever it can take a step
ClientFairSpec == ClientSpecInit /\ [][run]_vars /\ WF_vars(run)
FramingSpec == FramingSpecInit /\ [][ServerNext]_vars
====
